---- MODULE Spec2Model ----
(***************************************************************************)
(* Terminal capability negotiation of crossterm on unix:                   *)
(*   - the event filters of src/event/filter.rs,                           *)
(*   - the raw-mode state machine of src/terminal/sys/unix.rs,             *)
(*   - the four capability queries of src/terminal/sys/unix.rs.            *)
(* The event source (poll_internal / read_internal) and the terminal       *)
(* device are the environment of the code.                                 *)
(***************************************************************************)
EXTENDS Naturals, Integers, Sequences, FiniteSets, TLC

(***************************************************************************)
(* Bounds                                                                  *)
(***************************************************************************)
\* most events the input decoder puts on the stream in one behaviour
MaxArrivals == 2

\* most replies left in the stream by earlier queries when a query against
\* the FIFO terminal starts
MaxBacklog == 1

(***************************************************************************)
(* Values                                                                  *)
(***************************************************************************)
\* Option<T>
None == <<>>
Some(x) == <<x>>
is_some(o) == o # None
unwrap(o) == o[1]

\* io::Result<T>; an error is known by its io::ErrorKind
Ok(v) == [tag |-> "Ok", val |-> v]
Err(kind) == [tag |-> "Err", val |-> kind]
IsOk(r) == r.tag = "Ok"
IsErr(r) == r.tag = "Err"
IsOkVal(r, v) == r.tag = "Ok" /\ r.val = v
IsErrKind(r, k) == r.tag = "Err" /\ r.val = k
NoResult == [tag |-> "NoResult", val |-> "none"]

(***************************************************************************)
(* Termios: the terminal mode attributes, a set of the flags that are on.  *)
(***************************************************************************)
\* the attribute sets the terminal may carry when the process starts
InitialTermios ==
    { {"ICANON", "ECHO", "ISIG", "IXOFF"},
      {"CS8", "IXOFF"} }

\* cfmakeraw: no canonical processing, echo or signals; 8-bit characters;
\* every other attribute is kept
cfmakeraw(termios) ==
    (termios \ {"ICANON", "ECHO", "ISIG", "IEXTEN", "OPOST", "PARENB"})
        \cup {"CS8"}

raw_terminal_attr(termios) == cfmakeraw(termios)

Syscall(op, arg) == [op |-> op, arg |-> arg]

(***************************************************************************)
(* InternalEvent                                                           *)
(***************************************************************************)
KeyboardEnhancementFlagsets == SUBSET {"DISAMBIGUATE_ESCAPE_CODES"}
SynchronizedOutputModes == {"Unknown", "Set", "Reset"}
ThemeModes == {"Dark", "Light"}

KeyboardEnhancementFlags(flags) ==
    [type |-> "KeyboardEnhancementFlags", payload |-> flags]
SynchronizedOutputMode(mode) ==
    [type |-> "SynchronizedOutputMode", payload |-> {mode}]
ThemeModeChanged(theme_mode) ==
    [type |-> "ThemeModeChanged", payload |-> {theme_mode}]
PrimaryDeviceAttributes == [type |-> "PrimaryDeviceAttributes", payload |-> {}]
CursorPosition == [type |-> "CursorPosition", payload |-> {}]
KeyEvent == [type |-> "Key", payload |-> {}]

\* the variants wrapped in InternalEvent::Event(_)
UserEventTypes ==
    {"Key", "Mouse", "Resize", "Paste", "FocusGained", "FocusLost",
     "ThemeModeChanged"}

InternalEvents ==
    {KeyboardEnhancementFlags(f) : f \in KeyboardEnhancementFlagsets}
    \cup {SynchronizedOutputMode(m) : m \in SynchronizedOutputModes}
    \cup {ThemeModeChanged(t) : t \in ThemeModes}
    \cup {PrimaryDeviceAttributes, CursorPosition, KeyEvent}

PayloadOf(event) == CHOOSE x \in event.payload : TRUE

\* every variant of InternalEvent: those above and the other user events
AllInternalEvents ==
    InternalEvents
    \cup {[type |-> type, payload |-> {}] :
              type \in UserEventTypes \ {"ThemeModeChanged"}}

(***************************************************************************)
(* Filters (src/event/filter.rs)                                           *)
(***************************************************************************)
CursorPositionFilter(event) == event.type = "CursorPosition"

KeyboardEnhancementFlagsFilter(event) ==
    event.type \in {"KeyboardEnhancementFlags", "PrimaryDeviceAttributes"}

PrimaryDeviceAttributesFilter(event) == event.type = "PrimaryDeviceAttributes"

\* ThemeModeFilter with the pattern InternalEvent::Event(_)
ThemeModeFilter_accepting_every_event(event) ==
    event.type \in UserEventTypes \cup {"PrimaryDeviceAttributes"}

ThemeModeFilter(event) ==
    event.type \in {"ThemeModeChanged", "PrimaryDeviceAttributes"}

SynchronizedOutputModeFilter(event) ==
    event.type \in {"SynchronizedOutputMode", "PrimaryDeviceAttributes"}

\* TerminalFeaturesFilter without the ThemeModeChanged pattern
TerminalFeaturesFilter_without_theme_mode(event) ==
    event.type \in {"KeyboardEnhancementFlags", "SynchronizedOutputMode",
                    "PrimaryDeviceAttributes"}

TerminalFeaturesFilter(event) ==
    event.type \in {"KeyboardEnhancementFlags", "ThemeModeChanged",
                    "SynchronizedOutputMode", "PrimaryDeviceAttributes"}

EventFilter(event) == event.type \in UserEventTypes

FilterNames ==
    {"CursorPositionFilter", "KeyboardEnhancementFlagsFilter",
     "PrimaryDeviceAttributesFilter", "ThemeModeFilter",
     "SynchronizedOutputModeFilter", "TerminalFeaturesFilter", "EventFilter"}

\* Filter::eval, dispatched on the filter type
eval(filter, event) ==
    CASE filter = "CursorPositionFilter" -> CursorPositionFilter(event)
      [] filter = "KeyboardEnhancementFlagsFilter" ->
            KeyboardEnhancementFlagsFilter(event)
      [] filter = "PrimaryDeviceAttributesFilter" ->
            PrimaryDeviceAttributesFilter(event)
      [] filter = "ThemeModeFilter" -> ThemeModeFilter(event)
      [] filter = "SynchronizedOutputModeFilter" ->
            SynchronizedOutputModeFilter(event)
      [] filter = "TerminalFeaturesFilter" -> TerminalFeaturesFilter(event)
      [] filter = "EventFilter" -> EventFilter(event)

(***************************************************************************)
(* Raw-mode state machine (src/terminal/sys/unix.rs)                       *)
(***************************************************************************)
\* the OS failures a raw-mode transition can meet
RawModeFaults == {"none", "tty_fd", "tcgetattr", "tcsetattr"}

RawModeStep(mode, tty, res, io) ==
    [mode |-> mode, tty |-> tty, res |-> res, io |-> io]

\* enable_raw_mode without the `if original_mode.is_some()` early return
enable_raw_mode_without_guard(original_mode, tty, fault) ==
    IF fault = "tty_fd"
    THEN RawModeStep(original_mode, tty, Err("io"), <<Syscall("tty_fd", {})>>)
    ELSE IF fault = "tcgetattr"
    THEN RawModeStep(original_mode, tty, Err("io"),
                     <<Syscall("tty_fd", {}), Syscall("tcgetattr", {})>>)
    ELSE LET original_mode_ios == tty
             ios == raw_terminal_attr(original_mode_ios)
             io == <<Syscall("tty_fd", {}), Syscall("tcgetattr", {}),
                     Syscall("tcsetattr", ios)>>
         IN  IF fault = "tcsetattr"
             THEN RawModeStep(original_mode, tty, Err("io"), io)
             ELSE RawModeStep(Some(original_mode_ios), ios, Ok("unit"), io)

\* enable_raw_mode saving the attributes after raw_terminal_attr changed them
enable_raw_mode_saving_raw(original_mode, tty, fault) ==
    IF is_some(original_mode)
    THEN RawModeStep(original_mode, tty, Ok("unit"), <<>>)
    ELSE IF fault = "tty_fd"
    THEN RawModeStep(original_mode, tty, Err("io"), <<Syscall("tty_fd", {})>>)
    ELSE IF fault = "tcgetattr"
    THEN RawModeStep(original_mode, tty, Err("io"),
                     <<Syscall("tty_fd", {}), Syscall("tcgetattr", {})>>)
    ELSE LET ios == raw_terminal_attr(tty)
             io == <<Syscall("tty_fd", {}), Syscall("tcgetattr", {}),
                     Syscall("tcsetattr", ios)>>
         IN  IF fault = "tcsetattr"
             THEN RawModeStep(original_mode, tty, Err("io"), io)
             ELSE RawModeStep(Some(ios), ios, Ok("unit"), io)

\* enable_raw_mode, the whole critical section: original_mode is the content
\* of TERMINAL_MODE_PRIOR_RAW_MODE, tty the attributes the terminal carries
enable_raw_mode(original_mode, tty, fault) ==
    IF is_some(original_mode)
    THEN RawModeStep(original_mode, tty, Ok("unit"), <<>>)
    ELSE IF fault = "tty_fd"
    THEN RawModeStep(original_mode, tty, Err("io"), <<Syscall("tty_fd", {})>>)
    ELSE IF fault = "tcgetattr"
    THEN RawModeStep(original_mode, tty, Err("io"),
                     <<Syscall("tty_fd", {}), Syscall("tcgetattr", {})>>)
    ELSE LET original_mode_ios == tty
             ios == raw_terminal_attr(original_mode_ios)
             io == <<Syscall("tty_fd", {}), Syscall("tcgetattr", {}),
                     Syscall("tcsetattr", ios)>>
         IN  IF fault = "tcsetattr"
             THEN RawModeStep(original_mode, tty, Err("io"), io)
             ELSE RawModeStep(Some(original_mode_ios), ios, Ok("unit"), io)

\* disable_raw_mode clearing the saved mode before the restore is known to
\* have succeeded
disable_raw_mode_clearing_first(original_mode, tty, fault) ==
    IF is_some(original_mode)
    THEN LET original_mode_ios == unwrap(original_mode)
         IN  IF fault = "tty_fd"
             THEN RawModeStep(None, tty, Err("io"), <<Syscall("tty_fd", {})>>)
             ELSE IF fault = "tcsetattr"
             THEN RawModeStep(None, tty, Err("io"),
                              <<Syscall("tty_fd", {}),
                                Syscall("tcsetattr", original_mode_ios)>>)
             ELSE RawModeStep(None, original_mode_ios, Ok("unit"),
                              <<Syscall("tty_fd", {}),
                                Syscall("tcsetattr", original_mode_ios)>>)
    ELSE RawModeStep(original_mode, tty, Ok("unit"), <<>>)

\* disable_raw_mode, the whole critical section
disable_raw_mode(original_mode, tty, fault) ==
    IF is_some(original_mode)
    THEN LET original_mode_ios == unwrap(original_mode)
         IN  IF fault = "tty_fd"
             THEN RawModeStep(original_mode, tty, Err("io"),
                              <<Syscall("tty_fd", {})>>)
             ELSE IF fault = "tcsetattr"
             THEN RawModeStep(original_mode, tty, Err("io"),
                              <<Syscall("tty_fd", {}),
                                Syscall("tcsetattr", original_mode_ios)>>)
             ELSE RawModeStep(None, original_mode_ios, Ok("unit"),
                              <<Syscall("tty_fd", {}),
                                Syscall("tcsetattr", original_mode_ios)>>)
    ELSE RawModeStep(original_mode, tty, Ok("unit"), <<>>)

\* is_raw_mode_enabled answering false whatever the state
is_raw_mode_enabled_never(original_mode) == FALSE

\* is_raw_mode_enabled
is_raw_mode_enabled(original_mode) == is_some(original_mode)

(***************************************************************************)
(* Event source: poll_internal / read_internal over the shared stream      *)
(***************************************************************************)
Matching(filter, events) ==
    {i \in 1..Len(events) : eval(filter, events[i])}

HasMatch(filter, events) == Matching(filter, events) # {}

FirstMatch(filter, events) ==
    CHOOSE i \in Matching(filter, events) :
        \A j \in Matching(filter, events) : i <= j

RemoveAt(events, i) ==
    [k \in 1..(Len(events) - 1) |-> IF k < i THEN events[k] ELSE events[k + 1]]

\* the results poll_internal(timeout, filter) can give on the stream:
\* Ok(true) when a matching event is there, Ok(false) when the window
\* elapses with none, Err for a transient failure of the source
poll_internal(filter, events) ==
    (IF HasMatch(filter, events) THEN {Ok(TRUE)} ELSE {Ok(FALSE)})
    \cup {Err("io")}

\* the results read_internal(filter) can give: the first matching event,
\* which leaves the stream, or a failure of the source; with no matching
\* event and no failure the read blocks (no result)
read_internal(filter, events) ==
    (IF HasMatch(filter, events)
     THEN {[res |-> Ok(events[FirstMatch(filter, events)]),
            events |-> RemoveAt(events, FirstMatch(filter, events))]}
     ELSE {})
    \cup {[res |-> Err("io"), events |-> events]}

(***************************************************************************)
(* The capability queries (src/terminal/sys/unix.rs)                       *)
(***************************************************************************)
QueryKinds ==
    {"query_keyboard_enhancement_flags", "supports_synchronized_output",
     "query_terminal_theme_mode", "terminal_features"}

RawModeKinds == {"enable_raw_mode", "disable_raw_mode", "is_raw_mode_enabled"}

\* const QUERY of each *_raw function, as the list of its escape sequences
QUERY(kind) ==
    CASE kind = "query_keyboard_enhancement_flags" -> <<"CSI ? u", "CSI c">>
      [] kind = "supports_synchronized_output" -> <<"CSI ? 2026 $ p", "CSI c">>
      [] kind = "query_terminal_theme_mode" -> <<"CSI ? 996 n", "CSI c">>
      [] kind = "terminal_features" ->
            <<"CSI ? u", "CSI ? 2026 $ p", "CSI ? 996 n", "CSI c">>

\* the four *_raw functions polling and reading with one filter, that of
\* terminal_features_raw
QueryFilter_sharing_one_filter(kind) == "TerminalFeaturesFilter"

\* the filter each *_raw function polls and reads with
QueryFilter(kind) ==
    CASE kind = "query_keyboard_enhancement_flags" ->
            "KeyboardEnhancementFlagsFilter"
      [] kind = "supports_synchronized_output" -> "SynchronizedOutputModeFilter"
      [] kind = "query_terminal_theme_mode" -> "ThemeModeFilter"
      [] kind = "terminal_features" -> "TerminalFeaturesFilter"

\* TerminalFeatures::default()
DefaultTerminalFeatures ==
    [keyboard_enhancement_flags |-> None,
     synchronized_output_mode |-> "Unknown",
     theme_mode |-> None]

\* outcomes of writing the probe: /dev/tty opened or not, the write to it
\* (write_all and flush) done or not, the write to stdout done or not
ProbeOutcomes ==
    {"tty", "open_failed_stdout", "write_failed_stdout",
     "open_failed_stdout_failed", "write_failed_stdout_failed"}

\* a prologue that goes on when the write to stdout failed
write_probe_ignoring_stdout_failure(kind, outcome) ==
    LET tty_ok == [dev |-> "/dev/tty", bytes |-> QUERY(kind), ok |-> TRUE]
        tty_failed == [dev |-> "/dev/tty", bytes |-> QUERY(kind), ok |-> FALSE]
        out_ok == [dev |-> "stdout", bytes |-> QUERY(kind), ok |-> TRUE]
        out_failed == [dev |-> "stdout", bytes |-> QUERY(kind), ok |-> FALSE]
    IN  CASE outcome = "tty" ->
                [res |-> Ok("unit"), written |-> <<tty_ok>>]
          [] outcome = "open_failed_stdout" ->
                [res |-> Ok("unit"), written |-> <<out_ok>>]
          [] outcome = "write_failed_stdout" ->
                [res |-> Ok("unit"), written |-> <<tty_failed, out_ok>>]
          [] outcome = "open_failed_stdout_failed" ->
                [res |-> Ok("unit"), written |-> <<out_failed>>]
          [] outcome = "write_failed_stdout_failed" ->
                [res |-> Ok("unit"), written |-> <<tty_failed, out_failed>>]

\* the probe-writing prologue of each *_raw function: the writes of QUERY
\* it attempts, and whether the function goes on
write_probe(kind, outcome) ==
    LET tty_ok == [dev |-> "/dev/tty", bytes |-> QUERY(kind), ok |-> TRUE]
        tty_failed == [dev |-> "/dev/tty", bytes |-> QUERY(kind), ok |-> FALSE]
        out_ok == [dev |-> "stdout", bytes |-> QUERY(kind), ok |-> TRUE]
        out_failed == [dev |-> "stdout", bytes |-> QUERY(kind), ok |-> FALSE]
    IN  CASE outcome = "tty" ->
                [res |-> Ok("unit"), written |-> <<tty_ok>>]
          [] outcome = "open_failed_stdout" ->
                [res |-> Ok("unit"), written |-> <<out_ok>>]
          [] outcome = "write_failed_stdout" ->
                [res |-> Ok("unit"), written |-> <<tty_failed, out_ok>>]
          [] outcome = "open_failed_stdout_failed" ->
                [res |-> Err("io"), written |-> <<out_failed>>]
          [] outcome = "write_failed_stdout_failed" ->
                [res |-> Err("io"), written |-> <<tty_failed, out_failed>>]

\* Duration::from_millis(2000), the timeout of every poll_internal call
POLL_TIMEOUT == 2000

LoopNext(pc, ret, features) == [pc |-> pc, ret |-> ret, features |-> features]

TimeoutError == Err("timeout")

\* what each query returns for "not supported"
NotSupported(kind, features) ==
    CASE kind = "query_keyboard_enhancement_flags" -> Ok(None)
      [] kind = "query_terminal_theme_mode" -> Ok(None)
      [] kind = "supports_synchronized_output" -> Ok(FALSE)
      [] kind = "terminal_features" -> Ok(features)

\* a loop whose Ok(false) arm returns "not supported" in place of the error
after_poll_timeout_as_unsupported(kind, polled, features) ==
    IF IsOk(polled)
    THEN IF polled.val
         THEN LoopNext("read", NoResult, features)
         ELSE LoopNext("return", NotSupported(kind, features), features)
    ELSE LoopNext("poll", NoResult, features)

\* the arms of `match poll_internal(..)` in the loop of each *_raw function
after_poll(kind, polled, features) ==
    IF IsOk(polled)
    THEN IF polled.val
         THEN LoopNext("read", NoResult, features)
         ELSE LoopNext("return", TimeoutError, features)
    ELSE LoopNext("poll", NoResult, features)

\* query_keyboard_enhancement_flags_raw with a drain read in both arms
query_keyboard_enhancement_flags_raw_draining_always(rd, features) ==
    IF IsOk(rd) /\ rd.val.type = "KeyboardEnhancementFlags"
    THEN LoopNext("drain", Ok(Some(rd.val.payload)), features)
    ELSE LoopNext("drain", Ok(None), features)

\* query_keyboard_enhancement_flags_raw without the drain read
query_keyboard_enhancement_flags_raw_without_drain(rd, features) ==
    IF IsOk(rd) /\ rd.val.type = "KeyboardEnhancementFlags"
    THEN LoopNext("return", Ok(Some(rd.val.payload)), features)
    ELSE LoopNext("return", Ok(None), features)

\* the arms of `match read_internal(..)` in query_keyboard_enhancement_flags_raw
query_keyboard_enhancement_flags_raw(rd, features) ==
    IF IsOk(rd) /\ rd.val.type = "KeyboardEnhancementFlags"
    THEN LoopNext("drain", Ok(Some(rd.val.payload)), features)
    ELSE LoopNext("return", Ok(None), features)

\* the arms of `match read_internal(..)` in query_terminal_theme_mode_raw
query_terminal_theme_mode_raw(rd, features) ==
    IF IsOk(rd) /\ rd.val.type = "ThemeModeChanged"
    THEN LoopNext("drain", Ok(Some(PayloadOf(rd.val))), features)
    ELSE LoopNext("return", Ok(None), features)

\* supports_synchronized_output_raw taking any SynchronizedOutputMode reply,
\* Unknown too, for support
supports_synchronized_output_raw_accepting_unknown(rd, features) ==
    IF IsOk(rd) /\ rd.val.type = "SynchronizedOutputMode"
    THEN LoopNext("drain", Ok(TRUE), features)
    ELSE LoopNext("return", Ok(FALSE), features)

\* the arms of `match read_internal(..)` in supports_synchronized_output_raw
supports_synchronized_output_raw(rd, features) ==
    IF IsOk(rd) /\ rd.val.type = "SynchronizedOutputMode"
       /\ PayloadOf(rd.val) \in {"Set", "Reset"}
    THEN LoopNext("drain", Ok(TRUE), features)
    ELSE LoopNext("return", Ok(FALSE), features)

\* terminal_features_raw whose KeyboardEnhancementFlags arm stores nothing
terminal_features_raw_dropping_flags(rd, features) ==
    IF IsOk(rd) /\ rd.val.type = "KeyboardEnhancementFlags"
    THEN LoopNext("poll", NoResult, features)
    ELSE IF IsOk(rd) /\ rd.val.type = "SynchronizedOutputMode"
    THEN LoopNext("poll", NoResult,
            [features EXCEPT !.synchronized_output_mode = PayloadOf(rd.val)])
    ELSE IF IsOk(rd) /\ rd.val.type = "ThemeModeChanged"
    THEN LoopNext("poll", NoResult,
            [features EXCEPT !.theme_mode = Some(PayloadOf(rd.val))])
    ELSE LoopNext("return", Ok(features), features)

\* the arms of `match read_internal(..)` in terminal_features_raw
terminal_features_raw(rd, features) ==
    IF IsOk(rd) /\ rd.val.type = "KeyboardEnhancementFlags"
    THEN LoopNext("poll", NoResult,
            [features EXCEPT !.keyboard_enhancement_flags = Some(rd.val.payload)])
    ELSE IF IsOk(rd) /\ rd.val.type = "SynchronizedOutputMode"
    THEN LoopNext("poll", NoResult,
            [features EXCEPT !.synchronized_output_mode = PayloadOf(rd.val)])
    ELSE IF IsOk(rd) /\ rd.val.type = "ThemeModeChanged"
    THEN LoopNext("poll", NoResult,
            [features EXCEPT !.theme_mode = Some(PayloadOf(rd.val))])
    ELSE LoopNext("return", Ok(features), features)

\* a drain read whose error is returned to the caller
after_drain_propagating_errors(rd, pending) ==
    IF IsErr(rd) THEN rd ELSE pending

\* read_internal(&PrimaryDeviceAttributesFilter).ok(); return Ok(..): the
\* result of the drain read is dropped, the decoded value returned
after_drain(rd, pending) == pending

after_read(kind, rd, features) ==
    CASE kind = "query_keyboard_enhancement_flags" ->
            query_keyboard_enhancement_flags_raw(rd, features)
      [] kind = "supports_synchronized_output" ->
            supports_synchronized_output_raw(rd, features)
      [] kind = "query_terminal_theme_mode" ->
            query_terminal_theme_mode_raw(rd, features)
      [] kind = "terminal_features" -> terminal_features_raw(rd, features)

\* the public functions that start a query: the four queries, and
\* supports_keyboard_enhancement, which calls query_keyboard_enhancement_flags
EntryPoints == QueryKinds \cup {"supports_keyboard_enhancement"}

QueryOf(entry) ==
    IF entry = "supports_keyboard_enhancement"
    THEN "query_keyboard_enhancement_flags"
    ELSE entry

CallerOf(entry) ==
    IF entry = "supports_keyboard_enhancement" THEN entry ELSE "none"

\* supports_keyboard_enhancement answering Ok(false) when the flags query
\* returned an error
supports_keyboard_enhancement_hiding_errors(flags) ==
    IF IsOk(flags) THEN Ok(is_some(flags.val)) ELSE Ok(FALSE)

\* supports_keyboard_enhancement answering true only for a flagset that is
\* not empty
supports_keyboard_enhancement_when_populated(flags) ==
    IF IsOk(flags)
    THEN Ok(is_some(flags.val) /\ unwrap(flags.val) # {})
    ELSE flags

\* supports_keyboard_enhancement: query_keyboard_enhancement_flags()
\*     .map(|flags| flags.is_some()), flags being the result of the query
supports_keyboard_enhancement(flags) ==
    IF IsOk(flags) THEN Ok(is_some(flags.val)) ELSE flags

(***************************************************************************)
(* State                                                                   *)
(***************************************************************************)
VARIABLES
    \* static TERMINAL_MODE_PRIOR_RAW_MODE: None, or Some(termios before raw)
    TERMINAL_MODE_PRIOR_RAW_MODE,
    \* the mode attributes the terminal device carries
    tty,
    \* the events decoded by the event source and not yet read, oldest first
    stream,
    \* the threads of the process
    threads,
    \* per thread: the public call it is in (or has last returned from), with
    \* what the call has done so far; `written` holds the write just done,
    \* until the next step of the call
    call,
    \* the terminal attributes just before the last Cooked -> Raw transition
    prior_tty,
    \* how many events the input decoder has produced so far
    arrivals,
    \* what the terminal answers to each sub-probe: "any" for a terminal of
    \* which nothing is known (its replies come as they come), or a record
    \* of the reply to each sub-probe, None for no reply
    terminal,
    \* the latest calls of Filter::eval made on their own, the last one last
    evals,
    \* the thread that holds the lock of the Mutex around
    \* TERMINAL_MODE_PRIOR_RAW_MODE, "none" when it is free
    mutex,
    \* whether the attributes the terminal carries are those that
    \* enable_raw_mode applied (and disable_raw_mode has not replaced)
    raw_applied

vars ==
    <<TERMINAL_MODE_PRIOR_RAW_MODE, tty, stream, threads, call, prior_tty,
      arrivals, terminal, evals, mutex, raw_applied>>

ThreadIds == {"t1", "t2"}

\* a thread that has not called anything yet
NoCall ==
    [kind |-> "none", pc |-> "idle", path |-> "none",
     pre_mode |-> None, pre_tty |-> {},
     enable_res |-> NoResult, raw_res |-> NoResult,
     disable_res |-> NoResult, res |-> NoResult,
     pending |-> NoResult, features |-> DefaultTerminalFeatures,
     io |-> <<>>, written |-> <<>>, consumed |-> <<>>, log |-> <<>>,
     seen |-> <<>>, last_poll |-> "none",
     caller |-> "none", caller_res |-> NoResult,
     waited |-> 0, blocked |-> 0,
     original_mode_ios |-> None]

\* the record of a call that starts now
NewCall(kind) ==
    [NoCall EXCEPT !.kind = kind,
                   !.pre_mode = TERMINAL_MODE_PRIOR_RAW_MODE,
                   !.pre_tty = tty,
                   !.seen = stream]

Returned(t) == call[t].pc \in {"idle", "done"}

Init ==
    /\ TERMINAL_MODE_PRIOR_RAW_MODE = None
    /\ tty \in InitialTermios
    /\ stream = <<>>
    /\ threads = {"t1"}
    /\ call = [t \in ThreadIds |-> NoCall]
    /\ prior_tty = tty
    /\ arrivals = 0
    /\ terminal = "any"
    /\ evals = <<>>
    /\ mutex = "none"
    /\ raw_applied = FALSE

\* the effect of one raw-mode critical section on the shared state
ApplyRawModeStep(step) ==
    /\ TERMINAL_MODE_PRIOR_RAW_MODE' = step.mode
    /\ tty' = step.tty
    /\ prior_tty' = IF ~is_some(TERMINAL_MODE_PRIOR_RAW_MODE) /\ is_some(step.mode)
                    THEN tty ELSE prior_tty
    /\ raw_applied' = IF IsOk(step.res) /\ step.io # <<>>
                      THEN is_some(step.mode) ELSE raw_applied

(***************************************************************************)
(* Public raw-mode calls                                                   *)
(***************************************************************************)
EnableRawMode(t, fault) ==
    /\ Returned(t)
    /\ LET step == enable_raw_mode(TERMINAL_MODE_PRIOR_RAW_MODE, tty, fault)
       IN  /\ ApplyRawModeStep(step)
           /\ call' = [call EXCEPT ![t] =
                  [NewCall("enable_raw_mode") EXCEPT
                      !.pc = "done", !.res = step.res, !.io = step.io,
                      !.log = <<"enable_raw_mode">>]]
    /\ UNCHANGED <<stream, threads, arrivals,
                   terminal, evals, mutex>>

DisableRawMode(t, fault) ==
    /\ Returned(t)
    /\ LET step == disable_raw_mode(TERMINAL_MODE_PRIOR_RAW_MODE, tty, fault)
       IN  /\ ApplyRawModeStep(step)
           /\ call' = [call EXCEPT ![t] =
                  [NewCall("disable_raw_mode") EXCEPT
                      !.pc = "done", !.res = step.res, !.io = step.io,
                      !.log = <<"disable_raw_mode">>]]
    /\ UNCHANGED <<stream, threads, arrivals,
                   terminal, evals, mutex>>

IsRawModeEnabled(t) ==
    /\ Returned(t)
    /\ call' = [call EXCEPT ![t] =
           [NewCall("is_raw_mode_enabled") EXCEPT
               !.pc = "done",
               !.res = Ok(is_raw_mode_enabled(TERMINAL_MODE_PRIOR_RAW_MODE)),
               !.log = <<"is_raw_mode_enabled">>]]
    /\ UNCHANGED <<TERMINAL_MODE_PRIOR_RAW_MODE, tty, stream, threads, prior_tty,
                   arrivals,
                   terminal, evals, mutex, raw_applied>>

(***************************************************************************)
(* Public query calls, one action per step of the call                     *)
(***************************************************************************)
\* a nonraw wrapper that propagates an error of the raw function with `?`,
\* before disable_raw_mode()
ReturnFromRaw_propagating_errors(c, raw_res) ==
    IF c.path = "raw" \/ IsErr(raw_res)
    THEN [c EXCEPT !.raw_res = raw_res, !.res = raw_res, !.pc = "done"]
    ELSE [c EXCEPT !.raw_res = raw_res, !.pc = "disable"]

\* the raw function returned raw_res: in the raw path that is the result of
\* the call, in the nonraw path disable_raw_mode() comes next
ReturnFromRaw(c, raw_res) ==
    IF c.path = "raw"
    THEN [c EXCEPT !.raw_res = raw_res, !.res = raw_res, !.pc = "done"]
    ELSE [c EXCEPT !.raw_res = raw_res, !.pc = "disable"]

\* the call of t returns to supports_keyboard_enhancement, when that is its
\* caller, which maps the result of the flags query
ReturnToCaller(c) ==
    IF c.pc = "done" /\ c.caller = "supports_keyboard_enhancement"
    THEN [c EXCEPT !.caller_res = supports_keyboard_enhancement(c.res)]
    ELSE c

\* query_keyboard_enhancement_flags, supports_synchronized_output,
\* query_terminal_theme_mode, terminal_features, called directly or (the
\* first) by supports_keyboard_enhancement: the is_raw_mode_enabled() test
CallQuery(t, entry) ==
    /\ Returned(t)
    /\ LET raw == is_raw_mode_enabled(TERMINAL_MODE_PRIOR_RAW_MODE)
       IN  call' = [call EXCEPT ![t] =
               [NewCall(QueryOf(entry)) EXCEPT
                   !.caller = CallerOf(entry),
                   !.path = IF raw THEN "raw" ELSE "nonraw",
                   !.pc = IF raw THEN "probe" ELSE "enable",
                   !.log = <<"is_raw_mode_enabled">>]]
    /\ UNCHANGED <<TERMINAL_MODE_PRIOR_RAW_MODE, tty, stream, threads, prior_tty,
                   arrivals,
                   terminal, evals, mutex, raw_applied>>

\* *_nonraw: enable_raw_mode()?
QueryEnable(t, fault) ==
    /\ call[t].pc = "enable"
    /\ LET step == enable_raw_mode(TERMINAL_MODE_PRIOR_RAW_MODE, tty, fault)
           c == [call[t] EXCEPT !.enable_res = step.res,
                                !.io = @ \o step.io,
                                !.log = Append(@, "enable_raw_mode")]
       IN  /\ ApplyRawModeStep(step)
           /\ call' = [call EXCEPT ![t] =
                  IF IsOk(step.res)
                  THEN [c EXCEPT !.pc = "probe"]
                  ELSE ReturnToCaller(
                          [c EXCEPT !.pc = "done", !.res = step.res])]
    /\ UNCHANGED <<stream, threads, arrivals,
                   terminal, evals, mutex>>

\* *_raw: write QUERY to /dev/tty, or else to stdout
QueryProbe(t, outcome) ==
    /\ call[t].pc = "probe"
    /\ LET w == write_probe(call[t].kind, outcome)
           c == [call[t] EXCEPT !.written = @ \o w.written,
                                !.log = Append(@, "write_probe")]
       IN  call' = [call EXCEPT ![t] =
               IF IsOk(w.res)
               THEN [c EXCEPT !.pc = "poll"]
               ELSE ReturnToCaller(ReturnFromRaw(c, w.res))]
    /\ UNCHANGED <<TERMINAL_MODE_PRIOR_RAW_MODE, tty, stream, threads, prior_tty,
                   arrivals,
                   terminal, evals, mutex, raw_applied>>

PollLabel(polled) ==
    IF IsErr(polled) THEN "poll:Err"
    ELSE IF polled.val THEN "poll:Ok(true)" ELSE "poll:Ok(false)"

\* *_raw: poll_internal(Some(2000ms), &filter) and its match arms.  A failed
\* poll is remembered in last_poll only, until the next poll: the loop comes
\* back to the same place, any number of times
QueryPoll(t) ==
    /\ call[t].pc = "poll"
    /\ \E polled \in poll_internal(QueryFilter(call[t].kind), stream) :
         LET nxt == after_poll(call[t].kind, polled, call[t].features)
             c == [call[t] EXCEPT
                      !.log = IF IsErr(polled) THEN @
                              ELSE Append(@, PollLabel(polled)),
                      !.written = <<>>,
                      !.last_poll = PollLabel(polled),
                      !.blocked = @ + (IF polled = Ok(FALSE)
                                       THEN POLL_TIMEOUT
                                       ELSE call[t].waited),
                      !.waited = 0]
         IN  call' = [call EXCEPT ![t] =
                 IF nxt.pc = "return"
                 THEN ReturnToCaller(ReturnFromRaw(c, nxt.ret))
                 ELSE [c EXCEPT !.pc = nxt.pc]]
    /\ UNCHANGED <<TERMINAL_MODE_PRIOR_RAW_MODE, tty, stream, threads, prior_tty,
                   arrivals,
                   terminal, evals, mutex, raw_applied>>

\* *_raw: read_internal(&filter) and its match arms
QueryRead(t) ==
    /\ call[t].pc = "read"
    /\ \E rd \in read_internal(QueryFilter(call[t].kind), stream) :
         LET nxt == after_read(call[t].kind, rd.res, call[t].features)
             c == [call[t] EXCEPT
                      !.log = Append(@, IF IsOk(rd.res) THEN "read:Ok"
                                                        ELSE "read:Err"),
                      !.consumed = IF IsOk(rd.res) THEN Append(@, rd.res.val)
                                                   ELSE @,
                      !.features = nxt.features]
         IN  /\ stream' = rd.events
             /\ call' = [call EXCEPT ![t] =
                    CASE nxt.pc = "return" ->
                            ReturnToCaller(ReturnFromRaw(c, nxt.ret))
                      [] nxt.pc = "drain" ->
                            [c EXCEPT !.pc = "drain", !.pending = nxt.ret]
                      [] nxt.pc = "poll" -> [c EXCEPT !.pc = "poll"]]
    /\ UNCHANGED <<TERMINAL_MODE_PRIOR_RAW_MODE, tty, threads, prior_tty, arrivals,
                   terminal, evals, mutex, raw_applied>>

\* *_raw: read_internal(&PrimaryDeviceAttributesFilter).ok(); return Ok(..)
QueryDrain(t) ==
    /\ call[t].pc = "drain"
    /\ \E rd \in read_internal("PrimaryDeviceAttributesFilter", stream) :
         LET c == [call[t] EXCEPT
                      !.log = Append(@, IF IsOk(rd.res) THEN "drain:Ok"
                                                        ELSE "drain:Err"),
                      !.consumed = IF IsOk(rd.res) THEN Append(@, rd.res.val)
                                                   ELSE @,
                      !.blocked = @ + call[t].waited,
                      !.waited = 0]
         IN  /\ stream' = rd.events
             /\ call' = [call EXCEPT ![t] =
                    ReturnToCaller(
                        ReturnFromRaw(c, after_drain(rd.res, c.pending)))]
    /\ UNCHANGED <<TERMINAL_MODE_PRIOR_RAW_MODE, tty, threads, prior_tty, arrivals,
                   terminal, evals, mutex, raw_applied>>

\* a nonraw wrapper that drops the result of disable_raw_mode()
after_disable_ignoring_errors(disabled, raw_res) == raw_res

\* *_nonraw: disable_raw_mode()?; flags -- the error of disable_raw_mode(),
\* or else what the raw function returned
after_disable(disabled, raw_res) ==
    IF IsOk(disabled) THEN raw_res ELSE disabled

\* *_nonraw: disable_raw_mode()?; then the result of the raw function
QueryDisable(t, fault) ==
    /\ call[t].pc = "disable"
    /\ LET step == disable_raw_mode(TERMINAL_MODE_PRIOR_RAW_MODE, tty, fault)
           c == [call[t] EXCEPT !.disable_res = step.res,
                                !.io = @ \o step.io,
                                !.log = Append(@, "disable_raw_mode"),
                                !.pc = "done"]
       IN  /\ ApplyRawModeStep(step)
           /\ call' = [call EXCEPT ![t] =
                  ReturnToCaller(
                      [c EXCEPT !.res = after_disable(step.res, c.raw_res)])]
    /\ UNCHANGED <<stream, threads, arrivals,
                   terminal, evals, mutex>>

(***************************************************************************)
(* Environment: the input decoder puts one more event on the stream.  The  *)
(* code looks at the stream only in poll_internal and read_internal, so an *)
(* event that comes at any other moment is the same to it as one that      *)
(* comes while a query is about to poll or waits in its drain read: only   *)
(* these arrivals are distinguished.  A thread that has been waiting for   *)
(* the event has waited some time when it comes: 1 ms, the least, is       *)
(* counted.                                                                *)
(***************************************************************************)
Observing(t) == call[t].pc \in {"poll", "drain"}

\* the thread is blocked in poll_internal or in the drain read, and the
\* stream holds no event that would end the wait
Waiting(t) ==
    \/ call[t].pc = "poll" /\ ~HasMatch(QueryFilter(call[t].kind), stream)
    \/ call[t].pc = "drain" /\ ~HasMatch("PrimaryDeviceAttributesFilter", stream)

Arrive(event) ==
    /\ arrivals < MaxArrivals
    /\ \E t \in threads : Observing(t)
    /\ arrivals' = arrivals + 1
    /\ stream' = Append(stream, event)
    /\ call' = [t \in ThreadIds |->
                   IF Returned(t) THEN call[t]
                   ELSE [call[t] EXCEPT
                            !.seen = Append(@, event),
                            !.waited = IF Waiting(t) THEN 1 ELSE @]]
    /\ UNCHANGED <<TERMINAL_MODE_PRIOR_RAW_MODE, tty, threads, prior_tty,
                   terminal, evals, mutex, raw_applied>>

(***************************************************************************)
(* A FIFO terminal: it answers each sub-probe written to it with the reply *)
(* it has for it, if it has one, and the primary-device-attributes query   *)
(* always, in the order of the probe bytes and before the poll window of   *)
(* the query ends.  No system call and no call of the event source fails,  *)
(* and the user may type, or a cursor position report may come.            *)
(***************************************************************************)
Terminals ==
    [keyboard_enhancement_flags :
        {None} \cup {Some(flags) : flags \in KeyboardEnhancementFlagsets},
     synchronized_output_mode :
        {None} \cup {Some(mode) : mode \in SynchronizedOutputModes},
     theme_mode : {None} \cup {Some(theme_mode) : theme_mode \in ThemeModes}]

\* the reply of the terminal to one escape sequence of a probe
Reply(escape) ==
    CASE escape = "CSI ? u" ->
            IF is_some(terminal.keyboard_enhancement_flags)
            THEN <<KeyboardEnhancementFlags(
                      unwrap(terminal.keyboard_enhancement_flags))>>
            ELSE <<>>
      [] escape = "CSI ? 2026 $ p" ->
            IF is_some(terminal.synchronized_output_mode)
            THEN <<SynchronizedOutputMode(
                      unwrap(terminal.synchronized_output_mode))>>
            ELSE <<>>
      [] escape = "CSI ? 996 n" ->
            IF is_some(terminal.theme_mode)
            THEN <<ThemeModeChanged(unwrap(terminal.theme_mode))>>
            ELSE <<>>
      [] escape = "CSI c" -> <<PrimaryDeviceAttributes>>

RECURSIVE Replies(_)
Replies(bytes) ==
    IF bytes = <<>> THEN <<>>
    ELSE Reply(Head(bytes)) \o Replies(Tail(bytes))

\* the terminal answers the probe that the query of t has just written
Answer(t) ==
    /\ call[t].pc = "poll"
    /\ call[t].written # <<>>
    /\ LET probe == call[t].written[Len(call[t].written)]
           replies == Replies(probe.bytes)
       IN  /\ stream' = stream \o replies
           /\ call' = [call EXCEPT ![t].written = <<>>,
                                   ![t].seen = @ \o replies]
    /\ UNCHANGED <<TERMINAL_MODE_PRIOR_RAW_MODE, tty, threads, prior_tty,
                   arrivals, terminal, evals, mutex, raw_applied>>

FifoInit ==
    /\ TERMINAL_MODE_PRIOR_RAW_MODE = None
    /\ tty \in InitialTermios
    /\ stream = <<>>
    /\ threads = {"t1"}
    /\ call = [t \in ThreadIds |-> NoCall]
    /\ prior_tty = tty
    /\ arrivals = 0
    /\ terminal \in Terminals
    /\ evals = <<>>
    /\ mutex = "none"
    /\ raw_applied = FALSE

FifoNext ==
    \/ \E t \in threads : EnableRawMode(t, "none")
    \/ \E t \in threads : DisableRawMode(t, "none")
    \/ \E t \in threads, entry \in EntryPoints :
          /\ Len(SelectSeq(stream, TerminalFeaturesFilter)) <= MaxBacklog
          /\ CallQuery(t, entry)
    \/ \E t \in threads : QueryEnable(t, "none")
    \/ \E t \in threads, outcome \in {"tty", "open_failed_stdout"} :
          QueryProbe(t, outcome)
    \/ \E t \in threads : Answer(t)
    \/ \E t \in threads :
          /\ call[t].written = <<>>
          /\ QueryPoll(t)
          /\ call'[t].last_poll # "poll:Err"
    \/ \E t \in threads :
          QueryRead(t) /\ call'[t].log[Len(call'[t].log)] = "read:Ok"
    \/ \E t \in threads :
          QueryDrain(t) /\ call'[t].log[Len(call'[t].log)] = "drain:Ok"
    \/ \E t \in threads : QueryDisable(t, "none")
    \/ \E event \in {KeyEvent, CursorPosition} : Arrive(event)

FifoSpec == FifoInit /\ [][FifoNext]_vars

(***************************************************************************)
(* Filter::eval called on its own, on any filter and any event; evals      *)
(* keeps the last two calls.                                               *)
(***************************************************************************)
EvalCall(filter, event) ==
    [filter |-> filter, event |-> event, result |-> eval(filter, event)]

Eval(filter, event) ==
    /\ evals' = IF evals = <<>>
                THEN <<EvalCall(filter, event)>>
                ELSE <<evals[Len(evals)], EvalCall(filter, event)>>
    /\ UNCHANGED <<TERMINAL_MODE_PRIOR_RAW_MODE, tty, stream, threads, call,
                   prior_tty, arrivals, terminal, mutex, raw_applied>>

FilterNext ==
    \E filter \in FilterNames, event \in AllInternalEvents : Eval(filter, event)

FilterSpec == Init /\ [][FilterNext]_vars

(***************************************************************************)
(* The raw-mode calls made by several threads: one action per statement of *)
(* enable_raw_mode, disable_raw_mode and is_raw_mode_enabled, so that the  *)
(* steps of two calls interleave wherever the Mutex allows it.  The guard  *)
(* of the Mutex is dropped when the function returns.                      *)
(***************************************************************************)
\* the places of a call between lock() and the drop of the guard
CriticalSection == {"locked", "tcgetattr", "tcsetattr", "store"}

\* the function returns res: the guard is dropped
ReturnUnlocking(t, c, res) ==
    /\ call' = [call EXCEPT ![t] = [c EXCEPT !.pc = "done", !.res = res]]
    /\ mutex' = "none"

\* a lock() that returns at once, whoever holds the lock
Lock_without_waiting(t, kind) ==
    /\ Returned(t)
    /\ mutex' = t
    /\ call' = [call EXCEPT ![t] =
           [NewCall(kind) EXCEPT !.pc = "locked", !.log = <<kind>>]]
    /\ UNCHANGED <<TERMINAL_MODE_PRIOR_RAW_MODE, tty, stream, threads,
                   prior_tty, arrivals, terminal, evals, raw_applied>>

\* TERMINAL_MODE_PRIOR_RAW_MODE.lock(), the first statement of each of the
\* three functions: the thread waits until the lock is free and takes it
Lock(t, kind) ==
    /\ Returned(t)
    /\ mutex = "none"
    /\ mutex' = t
    /\ call' = [call EXCEPT ![t] =
           [NewCall(kind) EXCEPT !.pc = "locked", !.log = <<kind>>]]
    /\ UNCHANGED <<TERMINAL_MODE_PRIOR_RAW_MODE, tty, stream, threads,
                   prior_tty, arrivals, terminal, evals, raw_applied>>

\* enable_raw_mode: if original_mode.is_some() { return Ok(()) };
\* let tty = tty_fd()?
EnableCheck(t, fault) ==
    /\ call[t].kind = "enable_raw_mode"
    /\ call[t].pc = "locked"
    /\ fault \in {"none", "tty_fd"}
    /\ IF is_some(TERMINAL_MODE_PRIOR_RAW_MODE)
       THEN ReturnUnlocking(t, call[t], Ok("unit"))
       ELSE LET c == [call[t] EXCEPT !.io = Append(@, Syscall("tty_fd", {}))]
            IN  IF fault = "tty_fd"
                THEN ReturnUnlocking(t, c, Err("io"))
                ELSE /\ call' = [call EXCEPT ![t] = [c EXCEPT !.pc = "tcgetattr"]]
                     /\ UNCHANGED mutex
    /\ UNCHANGED <<TERMINAL_MODE_PRIOR_RAW_MODE, tty, stream, threads,
                   prior_tty, arrivals, terminal, evals, raw_applied>>

\* enable_raw_mode: let mut ios = get_terminal_attr(fd)?;
\* let original_mode_ios = ios
EnableGetAttr(t, fault) ==
    /\ call[t].kind = "enable_raw_mode"
    /\ call[t].pc = "tcgetattr"
    /\ fault \in {"none", "tcgetattr"}
    /\ LET c == [call[t] EXCEPT !.io = Append(@, Syscall("tcgetattr", {}))]
       IN  IF fault = "tcgetattr"
           THEN ReturnUnlocking(t, c, Err("io"))
           ELSE /\ call' = [call EXCEPT ![t] =
                       [c EXCEPT !.original_mode_ios = Some(tty),
                                 !.pc = "tcsetattr"]]
                /\ UNCHANGED mutex
    /\ UNCHANGED <<TERMINAL_MODE_PRIOR_RAW_MODE, tty, stream, threads,
                   prior_tty, arrivals, terminal, evals, raw_applied>>

\* enable_raw_mode: raw_terminal_attr(&mut ios); set_terminal_attr(fd, &ios)?
EnableSetAttr(t, fault) ==
    /\ call[t].kind = "enable_raw_mode"
    /\ call[t].pc = "tcsetattr"
    /\ fault \in {"none", "tcsetattr"}
    /\ LET ios == raw_terminal_attr(unwrap(call[t].original_mode_ios))
           c == [call[t] EXCEPT !.io = Append(@, Syscall("tcsetattr", ios))]
       IN  IF fault = "tcsetattr"
           THEN /\ ReturnUnlocking(t, c, Err("io"))
                /\ UNCHANGED <<tty, prior_tty, raw_applied>>
           ELSE /\ call' = [call EXCEPT ![t] = [c EXCEPT !.pc = "store"]]
                /\ tty' = ios
                /\ prior_tty' = IF raw_applied THEN prior_tty ELSE tty
                /\ raw_applied' = TRUE
                /\ UNCHANGED mutex
    /\ UNCHANGED <<TERMINAL_MODE_PRIOR_RAW_MODE, stream, threads, arrivals,
                   terminal, evals>>

\* enable_raw_mode: *original_mode = Some(original_mode_ios); Ok(())
EnableStore(t) ==
    /\ call[t].kind = "enable_raw_mode"
    /\ call[t].pc = "store"
    /\ TERMINAL_MODE_PRIOR_RAW_MODE' = call[t].original_mode_ios
    /\ ReturnUnlocking(t, call[t], Ok("unit"))
    /\ UNCHANGED <<tty, stream, threads, prior_tty, arrivals, terminal, evals,
                   raw_applied>>

\* disable_raw_mode: if let Some(original_mode_ios) = original_mode.as_ref()
\* { let tty = tty_fd()?; .. } Ok(())
DisableCheck(t, fault) ==
    /\ call[t].kind = "disable_raw_mode"
    /\ call[t].pc = "locked"
    /\ fault \in {"none", "tty_fd"}
    /\ IF is_some(TERMINAL_MODE_PRIOR_RAW_MODE)
       THEN LET c == [call[t] EXCEPT !.io = Append(@, Syscall("tty_fd", {}))]
            IN  IF fault = "tty_fd"
                THEN ReturnUnlocking(t, c, Err("io"))
                ELSE /\ call' = [call EXCEPT ![t] = [c EXCEPT !.pc = "tcsetattr"]]
                     /\ UNCHANGED mutex
       ELSE ReturnUnlocking(t, call[t], Ok("unit"))
    /\ UNCHANGED <<TERMINAL_MODE_PRIOR_RAW_MODE, tty, stream, threads,
                   prior_tty, arrivals, terminal, evals, raw_applied>>

\* disable_raw_mode: set_terminal_attr(tty.raw_fd(), original_mode_ios)?
DisableSetAttr(t, fault) ==
    /\ call[t].kind = "disable_raw_mode"
    /\ call[t].pc = "tcsetattr"
    /\ fault \in {"none", "tcsetattr"}
    /\ LET original_mode_ios == unwrap(TERMINAL_MODE_PRIOR_RAW_MODE)
           c == [call[t] EXCEPT
                    !.io = Append(@, Syscall("tcsetattr", original_mode_ios))]
       IN  IF fault = "tcsetattr"
           THEN /\ ReturnUnlocking(t, c, Err("io"))
                /\ UNCHANGED <<tty, raw_applied>>
           ELSE /\ call' = [call EXCEPT ![t] = [c EXCEPT !.pc = "store"]]
                /\ tty' = original_mode_ios
                /\ raw_applied' = FALSE
                /\ UNCHANGED mutex
    /\ UNCHANGED <<TERMINAL_MODE_PRIOR_RAW_MODE, stream, threads, prior_tty,
                   arrivals, terminal, evals>>

\* disable_raw_mode: *original_mode = None; Ok(())
DisableStore(t) ==
    /\ call[t].kind = "disable_raw_mode"
    /\ call[t].pc = "store"
    /\ TERMINAL_MODE_PRIOR_RAW_MODE' = None
    /\ ReturnUnlocking(t, call[t], Ok("unit"))
    /\ UNCHANGED <<tty, stream, threads, prior_tty, arrivals, terminal, evals,
                   raw_applied>>

\* is_raw_mode_enabled: TERMINAL_MODE_PRIOR_RAW_MODE.lock().is_some()
IsEnabledRead(t) ==
    /\ call[t].kind = "is_raw_mode_enabled"
    /\ call[t].pc = "locked"
    /\ ReturnUnlocking(t, call[t],
                       Ok(is_raw_mode_enabled(TERMINAL_MODE_PRIOR_RAW_MODE)))
    /\ UNCHANGED <<TERMINAL_MODE_PRIOR_RAW_MODE, tty, stream, threads,
                   prior_tty, arrivals, terminal, evals, raw_applied>>

MutexInit ==
    /\ TERMINAL_MODE_PRIOR_RAW_MODE = None
    /\ tty \in InitialTermios
    /\ stream = <<>>
    /\ threads = ThreadIds
    /\ call = [t \in ThreadIds |-> NoCall]
    /\ prior_tty = tty
    /\ arrivals = 0
    /\ terminal = "any"
    /\ evals = <<>>
    /\ mutex = "none"
    /\ raw_applied = FALSE

MutexNext ==
    \/ \E t \in threads, kind \in RawModeKinds : Lock(t, kind)
    \/ \E t \in threads, fault \in RawModeFaults : EnableCheck(t, fault)
    \/ \E t \in threads, fault \in RawModeFaults : EnableGetAttr(t, fault)
    \/ \E t \in threads, fault \in RawModeFaults : EnableSetAttr(t, fault)
    \/ \E t \in threads : EnableStore(t)
    \/ \E t \in threads, fault \in RawModeFaults : DisableCheck(t, fault)
    \/ \E t \in threads, fault \in RawModeFaults : DisableSetAttr(t, fault)
    \/ \E t \in threads : DisableStore(t)
    \/ \E t \in threads : IsEnabledRead(t)

MutexSpec == MutexInit /\ [][MutexNext]_vars

(***************************************************************************)
(* A query in one thread and enable_raw_mode, disable_raw_mode in another. *)
(* Each call of enable_raw_mode and disable_raw_mode, and the              *)
(* is_raw_mode_enabled test that opens a query, is one step:               *)
(* its critical section, which the Mutex keeps whole.  The terminal        *)
(* answers, if it does, with keyboard enhancement flags and the beacon.    *)
(***************************************************************************)
QueryThread == "t1"

RawModeThread == "t2"

RaceInit ==
    /\ TERMINAL_MODE_PRIOR_RAW_MODE = None
    /\ tty \in InitialTermios
    /\ stream = <<>>
    /\ threads = {QueryThread, RawModeThread}
    /\ call = [t \in ThreadIds |-> NoCall]
    /\ prior_tty = tty
    /\ arrivals = 0
    /\ terminal = "any"
    /\ evals = <<>>
    /\ mutex = "none"
    /\ raw_applied = FALSE

RaceNext ==
    \/ \E fault \in RawModeFaults : EnableRawMode(RawModeThread, fault)
    \/ \E fault \in RawModeFaults : DisableRawMode(RawModeThread, fault)
    \/ \E entry \in EntryPoints : CallQuery(QueryThread, entry)
    \/ \E fault \in RawModeFaults : QueryEnable(QueryThread, fault)
    \/ \E outcome \in ProbeOutcomes : QueryProbe(QueryThread, outcome)
    \/ QueryPoll(QueryThread)
    \/ QueryRead(QueryThread)
    \/ QueryDrain(QueryThread)
    \/ \E fault \in RawModeFaults : QueryDisable(QueryThread, fault)
    \/ \E event \in {KeyboardEnhancementFlags({}), PrimaryDeviceAttributes} :
          Arrive(event)

RaceSpec == RaceInit /\ [][RaceNext]_vars

(***************************************************************************)
(* Two threads that make one single-feature query each, not the same one,  *)
(* at the same time, against the FIFO terminal: the queries share the      *)
(* stream, and nothing but the Mutex of the raw-mode state, which no       *)
(* thread holds across a poll or a read, orders their steps.               *)
(***************************************************************************)
OverlapInit ==
    /\ TERMINAL_MODE_PRIOR_RAW_MODE = None
    /\ tty \in InitialTermios
    /\ stream = <<>>
    /\ threads = ThreadIds
    /\ call = [t \in ThreadIds |-> NoCall]
    /\ prior_tty = tty
    /\ arrivals = 0
    /\ terminal \in Terminals
    /\ evals = <<>>
    /\ mutex = "none"
    /\ raw_applied = FALSE

OverlapNext ==
    \/ \E t \in threads, entry \in QueryKinds \ {"terminal_features"} :
          /\ call[t].pc = "idle"
          /\ \A u \in threads \ {t} : call[u].kind # entry
          /\ CallQuery(t, entry)
    \/ \E t \in threads : QueryEnable(t, "none")
    \/ \E t \in threads : QueryProbe(t, "tty")
    \/ \E t \in threads : Answer(t)
    \/ \E t \in threads :
          /\ call[t].written = <<>>
          /\ QueryPoll(t)
          /\ call'[t].last_poll # "poll:Err"
    \/ \E t \in threads :
          QueryRead(t) /\ call'[t].log[Len(call'[t].log)] = "read:Ok"
    \/ \E t \in threads :
          QueryDrain(t) /\ call'[t].log[Len(call'[t].log)] = "drain:Ok"
    \/ \E t \in threads : QueryDisable(t, "none")

OverlapSpec == OverlapInit /\ [][OverlapNext]_vars

Next ==
    \/ \E t \in threads, fault \in RawModeFaults : EnableRawMode(t, fault)
    \/ \E t \in threads, fault \in RawModeFaults : DisableRawMode(t, fault)
    \/ \E t \in threads : IsRawModeEnabled(t)
    \/ \E t \in threads, entry \in EntryPoints : CallQuery(t, entry)
    \/ \E t \in threads, fault \in RawModeFaults : QueryEnable(t, fault)
    \/ \E t \in threads, outcome \in ProbeOutcomes : QueryProbe(t, outcome)
    \/ \E t \in threads : QueryPoll(t)
    \/ \E t \in threads : QueryRead(t)
    \/ \E t \in threads : QueryDrain(t)
    \/ \E t \in threads, fault \in RawModeFaults : QueryDisable(t, fault)
    \/ \E event \in InternalEvents : Arrive(event)

Spec == Init /\ [][Next]_vars

(***************************************************************************)
(* Fairness.  A thread that is in a query runs: when a step in which       *)
(* nothing fails stays possible (the system call succeeds, poll_internal   *)
(* returns Ok, read_internal returns an event that is there), the thread   *)
(* takes one in the end.  Nothing is assumed of the terminal, which may    *)
(* stay silent, nor of the failures, which may or may not come.            *)
(* (TLC compares two records field by field, in the order in which the     *)
(* field names first occur in the module, up to the first difference:      *)
(* `kind` occurs before the result fields, so that the results of two      *)
(* calls are compared only when they are results of the same function.)    *)
(***************************************************************************)
Progress(t) ==
    /\ t \in threads
    /\ \/ QueryEnable(t, "none")
       \/ QueryProbe(t, "tty")
       \/ QueryPoll(t) /\ call'[t].last_poll # "poll:Err"
       \/ QueryRead(t) /\ call'[t].log[Len(call'[t].log)] = "read:Ok"
       \/ QueryDrain(t) /\ call'[t].log[Len(call'[t].log)] = "drain:Ok"
       \/ QueryDisable(t, "none")

\* every step of Progress(t) moves the call of t on by one log entry
FairSpec ==
    Spec /\ \A t \in ThreadIds :
                WF_<<call[t].pc, Len(call[t].log)>>(Progress(t))

(***************************************************************************)
(* Properties                                                              *)
(***************************************************************************)
Count(seq, x) == Cardinality({i \in DOMAIN seq : seq[i] = x})

Last(seq) == seq[Len(seq)]

Front(seq) == SubSeq(seq, 1, Len(seq) - 1)

Raw == is_some(TERMINAL_MODE_PRIOR_RAW_MODE)

Cooked == ~Raw

\* the thread has returned from a call of this function
Done(t, kind) == call[t].kind = kind /\ call[t].pc = "done"

\* the thread is in, or has returned from, one of the four queries
InQuery(t) == call[t].kind \in QueryKinds

\* C1: a redundant raw-mode transition is a no-op.  enable_raw_mode() called
\* in state Raw(saved) returns Ok, does no terminal I/O and leaves the state
\* Raw(saved) with the same saved attributes (so a second enable ends where
\* the first did); disable_raw_mode() called in state Cooked returns Ok,
\* does no terminal I/O and leaves the state Cooked.
C1_RedundantTransitionsAreNoOps ==
    \A t \in threads :
        /\ (Done(t, "enable_raw_mode") /\ is_some(call[t].pre_mode)) =>
              /\ IsOk(call[t].res)
              /\ call[t].io = <<>>
              /\ TERMINAL_MODE_PRIOR_RAW_MODE = call[t].pre_mode
              /\ tty = call[t].pre_tty
        /\ (Done(t, "disable_raw_mode") /\ ~is_some(call[t].pre_mode)) =>
              /\ IsOk(call[t].res)
              /\ call[t].io = <<>>
              /\ Cooked
              /\ tty = call[t].pre_tty

\* enable_raw_mode() has returned from a call made in state Raw(saved), where
\* saved differs from the attributes the terminal carries
C1_Witness ==
    \E t \in threads :
        /\ Done(t, "enable_raw_mode")
        /\ is_some(call[t].pre_mode)
        /\ unwrap(call[t].pre_mode) # call[t].pre_tty

\* C2: round trip of raw mode.  While the state is Raw, the saved attributes
\* are those the terminal carried just before the Cooked -> Raw transition,
\* whatever enable calls came after it; and a disable_raw_mode() that
\* succeeds from Raw ends with the tcsetattr of exactly those attributes,
\* which the terminal then carries, and leaves the state Cooked.
C2_RoundTrip ==
    /\ Raw => unwrap(TERMINAL_MODE_PRIOR_RAW_MODE) = prior_tty
    /\ \A t \in threads :
        (Done(t, "disable_raw_mode") /\ is_some(call[t].pre_mode)
            /\ IsOk(call[t].res)) =>
              /\ call[t].io # <<>>
              /\ Last(call[t].io) = Syscall("tcsetattr", prior_tty)
              /\ tty = prior_tty
              /\ Cooked

\* disable_raw_mode() has succeeded from Raw and the terminal carries
\* attributes that differ from those it carried in raw mode
C2_Witness ==
    \E t \in threads :
        /\ Done(t, "disable_raw_mode")
        /\ is_some(call[t].pre_mode)
        /\ IsOk(call[t].res)
        /\ tty # call[t].pre_tty

\* C3: the raw-mode state changes only after the apply succeeds.  An
\* enable_raw_mode() that returns an error (tty_fd, tcgetattr or tcsetattr
\* failed) leaves the state Cooked; a disable_raw_mode() that returns an
\* error leaves the state Raw with the saved attributes it had, which stay
\* those from before the Cooked -> Raw transition (what a later successful
\* disable re-applies, by C2); the same holds of the enable and disable
\* steps made inside a query.
C3_StateChangesOnlyAfterApply ==
    /\ Raw => unwrap(TERMINAL_MODE_PRIOR_RAW_MODE) = prior_tty
    /\ \A t \in threads :
        /\ (Done(t, "enable_raw_mode") /\ IsErr(call[t].res)) =>
              /\ ~is_some(call[t].pre_mode)
              /\ Cooked
        /\ (Done(t, "disable_raw_mode") /\ IsErr(call[t].res)) =>
              /\ is_some(call[t].pre_mode)
              /\ TERMINAL_MODE_PRIOR_RAW_MODE = call[t].pre_mode
        /\ (InQuery(t) /\ call[t].pc = "done" /\ IsErr(call[t].enable_res)) =>
              /\ Cooked
              /\ call[t].res = call[t].enable_res
        /\ (InQuery(t) /\ call[t].pc = "done" /\ IsErr(call[t].disable_res)) =>
              /\ TERMINAL_MODE_PRIOR_RAW_MODE = Some(call[t].pre_tty)
              /\ call[t].res = call[t].disable_res

\* disable_raw_mode() has returned an error from Raw
C3_Witness ==
    \E t \in threads :
        /\ Done(t, "disable_raw_mode")
        /\ IsErr(call[t].res)
        /\ is_some(call[t].pre_mode)

\* C4: scoped raw mode.  In a query called in state Cooked whose own
\* enable_raw_mode() succeeded: the state is Raw while the raw function runs
\* and disable_raw_mode() has not been called; when the raw function has
\* returned (a value, not supported, the timeout error or the probe write
\* error) disable_raw_mode() is called before the call returns, and the call
\* returns having called it exactly once, as its last step; if that disable
\* succeeded the state is Cooked and the terminal carries the attributes it
\* had before the call.
C4_ScopedRawMode ==
    \A t \in threads :
        (InQuery(t) /\ ~is_some(call[t].pre_mode) /\ IsOk(call[t].enable_res)) =>
            /\ call[t].pc \in {"probe", "poll", "read", "drain"} =>
                  /\ Raw
                  /\ call[t].raw_res = NoResult
                  /\ Count(call[t].log, "disable_raw_mode") = 0
            /\ call[t].pc = "disable" =>
                  /\ call[t].raw_res # NoResult
                  /\ call[t].res = NoResult
                  /\ Count(call[t].log, "disable_raw_mode") = 0
            /\ call[t].pc = "done" =>
                  /\ call[t].raw_res # NoResult
                  /\ Count(call[t].log, "disable_raw_mode") = 1
                  /\ Last(call[t].log) = "disable_raw_mode"
                  /\ call[t].disable_res # NoResult
                  /\ IsOk(call[t].disable_res) =>
                        /\ Cooked
                        /\ tty = call[t].pre_tty

\* a query called in state Cooked has returned after its raw function timed
\* out, and its disable_raw_mode() restored the terminal
C4_Witness ==
    \E t \in threads :
        /\ InQuery(t) /\ call[t].pc = "done"
        /\ ~is_some(call[t].pre_mode)
        /\ IsErrKind(call[t].raw_res, "timeout")
        /\ IsOk(call[t].disable_res)
        /\ Cooked

\* C5: a query called in state Raw(saved) leaves raw mode alone.  At every
\* step of the call and after its return, whatever the outcome, it has called
\* neither enable_raw_mode() nor disable_raw_mode(), has done no terminal-mode
\* I/O, and the state is Raw(saved) with the same saved attributes, the
\* terminal carrying the same attributes.
C5_QueryInRawModeLeavesRawMode ==
    \A t \in threads :
        (InQuery(t) /\ is_some(call[t].pre_mode)) =>
            /\ Count(call[t].log, "enable_raw_mode") = 0
            /\ Count(call[t].log, "disable_raw_mode") = 0
            /\ call[t].enable_res = NoResult
            /\ call[t].disable_res = NoResult
            /\ call[t].io = <<>>
            /\ TERMINAL_MODE_PRIOR_RAW_MODE = call[t].pre_mode
            /\ tty = call[t].pre_tty
            /\ call[t].pc = "done" => call[t].res = call[t].raw_res

\* a query called in state Raw has returned a value
C5_Witness ==
    \E t \in threads :
        /\ InQuery(t) /\ call[t].pc = "done"
        /\ is_some(call[t].pre_mode)
        /\ IsOk(call[t].res)
        /\ call[t].consumed # <<>>

SingleFeatureKinds == QueryKinds \ {"terminal_features"}

\* the call of t returns what its raw function returned, unless the
\* disable_raw_mode() of the nonraw wrapper failed
ReturnsRawResult(t) ==
    (call[t].pc = "done" /\ ~IsErr(call[t].disable_res)) =>
        call[t].res = call[t].raw_res

\* the positions of the log after its entry `label`
After(log, label) ==
    {j \in DOMAIN log : \E i \in DOMAIN log : log[i] = label /\ i < j}

\* C6: a timeout is an error.  In each of the four queries the raw function
\* returns the timeout error exactly when its latest poll returned Ok(false);
\* after that poll it makes no poll or read and writes no probe (the call
\* only goes on to the disable_raw_mode() of the nonraw wrapper), and the
\* call returns an error, never Ok: the timeout error itself unless that
\* disable_raw_mode() failed.
C6_TimeoutIsAnError ==
    \A t \in threads :
        InQuery(t) =>
            /\ IsErrKind(call[t].raw_res, "timeout")
                  <=> call[t].last_poll = "poll:Ok(false)"
            /\ call[t].last_poll = "poll:Ok(false)" =>
                  /\ call[t].pc \in {"disable", "done"}
                  /\ Count(call[t].log, "poll:Ok(false)") = 1
                  /\ Count(call[t].log, "write_probe") = 1
                  /\ \A j \in After(call[t].log, "poll:Ok(false)") :
                        call[t].log[j] = "disable_raw_mode"
                  /\ call[t].pc = "done" => IsErr(call[t].res)
                  /\ ReturnsRawResult(t)

\* terminal_features() has returned the timeout error after reading one reply
C6_Witness ==
    \E t \in threads :
        /\ Done(t, "terminal_features")
        /\ call[t].last_poll = "poll:Ok(false)"
        /\ IsErrKind(call[t].res, "timeout")
        /\ call[t].consumed # <<>>

\* C7: beacon-based unsupported detection.  In each single-feature query
\* whose first read returned PrimaryDeviceAttributes, the raw function
\* returns "not supported" (Ok(None) for the keyboard flags and the theme
\* mode, Ok(false) for synchronized output) having made that one read and no
\* drain read: the beacon is the one event gone from the stream; the call
\* returns that value unless the disable_raw_mode() of its wrapper failed.
C7_BeaconMeansNotSupported ==
    \A t \in threads :
        (call[t].kind \in SingleFeatureKinds /\ call[t].consumed # <<>>
            /\ call[t].consumed[1] = PrimaryDeviceAttributes) =>
              /\ call[t].consumed = <<PrimaryDeviceAttributes>>
              /\ call[t].raw_res
                    = NotSupported(call[t].kind, DefaultTerminalFeatures)
              /\ Count(call[t].log, "read:Ok") = 1
              /\ Count(call[t].log, "read:Err") = 0
              /\ Count(call[t].log, "drain:Ok") = 0
              /\ Count(call[t].log, "drain:Err") = 0
              /\ call[t].pc \in {"disable", "done"}
              /\ stream = RemoveAt(call[t].seen,
                            FirstMatch(QueryFilter(call[t].kind), call[t].seen))
              /\ ReturnsRawResult(t)

\* supports_synchronized_output() has returned Ok(false) on the bare beacon
C7_Witness ==
    \E t \in threads :
        /\ Done(t, "supports_synchronized_output")
        /\ call[t].consumed = <<PrimaryDeviceAttributes>>
        /\ IsOk(call[t].res)
        /\ call[t].res.val = FALSE

NotKeyboardEnhancementFlagsFilter(event) ==
    ~KeyboardEnhancementFlagsFilter(event)

\* the events matching KeyboardEnhancementFlagsFilter that the query of t
\* found in the stream or that came during it are flags and then beacon,
\* its probe was written and none of its reads failed
YieldsFlagsThenBeacon(t, flags) ==
    /\ call[t].kind = "query_keyboard_enhancement_flags"
    /\ call[t].raw_res # NoResult
    /\ ~IsErrKind(call[t].raw_res, "io")
    /\ SelectSeq(call[t].seen, KeyboardEnhancementFlagsFilter)
          = <<KeyboardEnhancementFlags(flags), PrimaryDeviceAttributes>>
    /\ Count(call[t].log, "read:Err") = 0
    /\ Count(call[t].log, "drain:Err") = 0

\* C8: decode and drain.  When the stream yields KeyboardEnhancementFlags(F)
\* and then PrimaryDeviceAttributes to query_keyboard_enhancement_flags, for
\* every flagset F, the empty one too, the raw function returns Ok(Some(F))
\* having read both events, and on return the stream holds neither: what is
\* left is the other events, in their order; the call returns Ok(Some(F))
\* unless the disable_raw_mode() of its wrapper failed.
C8_DecodeAndDrain ==
    \A t \in threads : \A flags \in KeyboardEnhancementFlagsets :
        YieldsFlagsThenBeacon(t, flags) =>
            /\ IsOk(call[t].raw_res)
            /\ call[t].raw_res.val = Some(flags)
            /\ call[t].consumed
                  = <<KeyboardEnhancementFlags(flags), PrimaryDeviceAttributes>>
            /\ stream = SelectSeq(call[t].seen, NotKeyboardEnhancementFlagsFilter)
            /\ ReturnsRawResult(t)

\* query_keyboard_enhancement_flags() has returned Ok(Some(empty flagset))
\* after the stream yielded the flags and the beacon
C8_Witness ==
    \E t \in threads :
        /\ YieldsFlagsThenBeacon(t, {})
        /\ call[t].pc = "done"
        /\ IsOk(call[t].res)
        /\ call[t].res.val = Some({})

\* the payload of the last reply of this type among replies, if any
Reported(replies, type) == {i \in DOMAIN replies : replies[i].type = type}

LastReported(replies, type) ==
    replies[CHOOSE i \in Reported(replies, type) :
                \A j \in Reported(replies, type) : j <= i]

\* the TerminalFeatures a sequence of feature-specific replies stands for
Aggregate(replies) ==
    [keyboard_enhancement_flags |->
        IF Reported(replies, "KeyboardEnhancementFlags") = {} THEN None
        ELSE Some(LastReported(replies, "KeyboardEnhancementFlags").payload),
     synchronized_output_mode |->
        IF Reported(replies, "SynchronizedOutputMode") = {} THEN "Unknown"
        ELSE PayloadOf(LastReported(replies, "SynchronizedOutputMode")),
     theme_mode |->
        IF Reported(replies, "ThemeModeChanged") = {} THEN None
        ELSE Some(PayloadOf(LastReported(replies, "ThemeModeChanged")))]

C10_BeaconEndsTheLoop ==
    \A t \in threads :
        call[t].kind = "terminal_features" =>
            (IsOk(call[t].raw_res)
                <=> /\ call[t].consumed # <<>>
                    /\ Last(call[t].consumed) = PrimaryDeviceAttributes)
            /\ Count(call[t].consumed, PrimaryDeviceAttributes) <= 1

\* the TerminalFeatures of a terminal: what it answers to each sub-probe
FeaturesOf(term) ==
    [keyboard_enhancement_flags |-> term.keyboard_enhancement_flags,
     synchronized_output_mode |->
        IF is_some(term.synchronized_output_mode)
        THEN unwrap(term.synchronized_output_mode)
        ELSE "Unknown",
     theme_mode |-> term.theme_mode]

\* C11: discovery against a FIFO terminal.  Every query made, one at a time,
\* against a terminal that answers the sub-probes it has a reply for and
\* always the primary-device-attributes query, in the order of the probe
\* bytes, the first query and every later one, returns Ok with what the
\* terminal supports: the keyboard flags query Some(flags) exactly when the
\* terminal answers that sub-probe (and its flags), the theme query likewise,
\* supports_synchronized_output() true exactly when the terminal answers Set
\* or Reset, supports_keyboard_enhancement() true exactly when the terminal
\* answers the flags sub-probe, and terminal_features() exactly the features
\* of the terminal.
C11_DiscoveryAgainstFifoTerminal ==
    \A t \in threads :
        (InQuery(t) /\ call[t].pc = "done") =>
            /\ IsOk(call[t].res)
            /\ call[t].kind = "query_keyboard_enhancement_flags" =>
                  call[t].res.val = terminal.keyboard_enhancement_flags
            /\ call[t].kind = "query_terminal_theme_mode" =>
                  call[t].res.val = terminal.theme_mode
            /\ call[t].kind = "supports_synchronized_output" =>
                  call[t].res.val
                      = (terminal.synchronized_output_mode
                            \in {Some("Set"), Some("Reset")})
            /\ call[t].kind = "terminal_features" =>
                  call[t].res.val = FeaturesOf(terminal)
            /\ call[t].caller = "supports_keyboard_enhancement" =>
                  call[t].caller_res
                      = Ok(is_some(terminal.keyboard_enhancement_flags))

\* the call of t is a call of supports_keyboard_enhancement()
Supports(t) == call[t].caller = "supports_keyboard_enhancement"

\* C12: supports_keyboard_enhancement() is derived from the flags query.  A
\* call of it makes one call of query_keyboard_enhancement_flags() and
\* returns when that returns: Ok(true) exactly when the flags query returned
\* Ok(Some(_)), Ok(false) exactly when it returned Ok(None), and the same
\* error when it returned an error; the call tests is_raw_mode_enabled()
\* once, writes at most one probe, makes at most one read with
\* KeyboardEnhancementFlagsFilter and at most one drain read, and takes from
\* the stream only what those reads returned.
C12_DerivedFromFlagsQuery ==
    \A t \in threads :
        Supports(t) =>
            /\ call[t].kind = "query_keyboard_enhancement_flags"
            /\ call[t].pc # "done" => call[t].caller_res = NoResult
            /\ call[t].pc = "done" =>
                  /\ IsOkVal(call[t].caller_res, TRUE)
                        <=> (IsOk(call[t].res) /\ is_some(call[t].res.val))
                  /\ IsOkVal(call[t].caller_res, FALSE)
                        <=> IsOkVal(call[t].res, None)
                  /\ IsErr(call[t].res) => call[t].caller_res = call[t].res
                  /\ IsErr(call[t].caller_res) => IsErr(call[t].res)
            /\ Count(call[t].log, "is_raw_mode_enabled") = 1
            /\ Count(call[t].log, "write_probe") <= 1
            /\ Count(call[t].log, "poll:Ok(true)") <= 1
            /\ Count(call[t].log, "read:Ok") + Count(call[t].log, "read:Err") <= 1
            /\ Count(call[t].log, "drain:Ok") + Count(call[t].log, "drain:Err") <= 1
            /\ Len(call[t].consumed)
                  = Count(call[t].log, "read:Ok") + Count(call[t].log, "drain:Ok")
            /\ \A i \in DOMAIN call[t].consumed :
                  KeyboardEnhancementFlagsFilter(call[t].consumed[i])

\* supports_keyboard_enhancement() has returned the error of its flags query,
\* the timeout
C12_Witness ==
    \E t \in threads :
        /\ Supports(t)
        /\ call[t].pc = "done"
        /\ IsErrKind(call[t].caller_res, "timeout")
        /\ IsErrKind(call[t].raw_res, "timeout")

\* the flags query that supports_keyboard_enhancement() made has returned
\* after the first read gave the beacon, with no failure
BeaconOnly(t) ==
    /\ call[t].pc = "done"
    /\ ~IsErr(call[t].disable_res)
    /\ call[t].consumed = <<PrimaryDeviceAttributes>>

\* the flags query that supports_keyboard_enhancement() made has returned
\* after the stream yielded the empty flagset and then the beacon, with no
\* failure
EmptyFlagsetThenBeacon(t) ==
    /\ call[t].pc = "done"
    /\ ~IsErr(call[t].disable_res)
    /\ YieldsFlagsThenBeacon(t, {})

\* C13 as claimed: at the boolean layer a reply with zero flags is the same
\* as no reply.  supports_keyboard_enhancement() returns Ok(false) when the
\* terminal answers with the beacon only, and the same Ok(false) when it
\* answers with KeyboardEnhancementFlags(empty flagset) and then the beacon,
\* while the flags query returns Ok(None) for the first and Ok(Some(empty))
\* for the second.
C13_ZeroFlagsLookUnsupported ==
    \A t \in threads :
        Supports(t) =>
            /\ BeaconOnly(t) =>
                  /\ call[t].res = Ok(None)
                  /\ call[t].caller_res = Ok(FALSE)
            /\ EmptyFlagsetThenBeacon(t) =>
                  /\ call[t].res = Ok(Some({}))
                  /\ call[t].caller_res = Ok(FALSE)

\* C13 amended: the boolean layer tells a reply with zero flags from no
\* reply, as the flags query does.  supports_keyboard_enhancement() returns
\* Ok(false) when the terminal answers with the beacon only (the flags query
\* returning Ok(None)) and Ok(true) when it answers with
\* KeyboardEnhancementFlags(empty flagset) and then the beacon (the flags
\* query returning Ok(Some(empty))).
C13_ZeroFlagsAreSupport ==
    \A t \in threads :
        Supports(t) =>
            /\ BeaconOnly(t) =>
                  /\ call[t].res = Ok(None)
                  /\ call[t].caller_res = Ok(FALSE)
            /\ EmptyFlagsetThenBeacon(t) =>
                  /\ call[t].res = Ok(Some({}))
                  /\ call[t].caller_res = Ok(TRUE)

\* supports_keyboard_enhancement() has returned after the terminal answered
\* with the empty flagset and the beacon
C13_Witness ==
    \E t \in threads :
        /\ Supports(t)
        /\ EmptyFlagsetThenBeacon(t)
        /\ call[t].consumed
              = <<KeyboardEnhancementFlags({}), PrimaryDeviceAttributes>>

\* the variants the claim gives as the acceptance set of each filter
AcceptanceSet(filter) ==
    CASE filter = "CursorPositionFilter" -> {"CursorPosition"}
      [] filter = "PrimaryDeviceAttributesFilter" -> {"PrimaryDeviceAttributes"}
      [] filter = "KeyboardEnhancementFlagsFilter" ->
            {"KeyboardEnhancementFlags", "PrimaryDeviceAttributes"}
      [] filter = "SynchronizedOutputModeFilter" ->
            {"SynchronizedOutputMode", "PrimaryDeviceAttributes"}
      [] filter = "ThemeModeFilter" ->
            {"ThemeModeChanged", "PrimaryDeviceAttributes"}
      [] filter = "TerminalFeaturesFilter" ->
            {"KeyboardEnhancementFlags", "SynchronizedOutputMode",
             "ThemeModeChanged", "PrimaryDeviceAttributes"}
      [] filter = "EventFilter" ->
            {"Key", "Mouse", "Resize", "Paste", "FocusGained", "FocusLost",
             "ThemeModeChanged"}

\* C14: the filter truth table.  Every call of eval, on any of the seven
\* filters and any InternalEvent, returns true exactly when the variant of
\* the event is in the acceptance set of the filter; two calls on the same
\* filter and the same variant return the same, whatever the payloads and
\* whatever call came before.
C14_FilterTruthTable ==
    /\ \A i \in DOMAIN evals :
          evals[i].result
              = (evals[i].event.type \in AcceptanceSet(evals[i].filter))
    /\ \A i, j \in DOMAIN evals :
          (evals[i].filter = evals[j].filter
              /\ evals[i].event.type = evals[j].event.type)
            => evals[i].result = evals[j].result

\* TerminalFeaturesFilter has accepted ThemeModeChanged(Dark) and then, the
\* payload being another, ThemeModeChanged(Light)
C14_Witness ==
    /\ Len(evals) = 2
    /\ evals[1] = [filter |-> "TerminalFeaturesFilter",
                   event |-> ThemeModeChanged("Dark"), result |-> TRUE]
    /\ evals[2] = [filter |-> "TerminalFeaturesFilter",
                   event |-> ThemeModeChanged("Light"), result |-> TRUE]

\* C15: bounded blocking.  The time a negotiation call has been blocked, in
\* its polls and its drain read together, never exceeds one timeout window
\* of 2000 ms: in terminal_features() too, whatever the number of replies
\* read and of loop iterations, and under repeated transient poll errors.
C15_BlocksAtMostOneWindow ==
    \A t \in threads :
        InQuery(t) => call[t].blocked <= POLL_TIMEOUT

\* C16: every negotiation call returns in the end.  A thread that is in a
\* query comes to the return of the query, with a value or an error,
\* whatever the terminal sends: also when it sends the feature-specific
\* reply and never the beacon, and when it sends nothing.
C16_EveryCallReturns ==
    \A t \in ThreadIds :
        (InQuery(t) /\ call[t].pc # "done") ~> (call[t].pc = "done")

\* the log entries of the polls and reads of a query
PollsAndReads ==
    {"poll:Ok(true)", "poll:Ok(false)", "read:Ok", "read:Err", "drain:Ok",
     "drain:Err"}

\* the query of t writes its probe once at most, and before any poll or read;
\* when its raw function has returned an I/O error it has made no poll and
\* no read and has taken no event
ProbeFirst(t) ==
    /\ Count(call[t].log, "write_probe") <= 1
    /\ call[t].pc \in {"poll", "read", "drain"}
          => Count(call[t].log, "write_probe") = 1
    /\ \A i \in DOMAIN call[t].log :
          call[t].log[i] \in PollsAndReads
              => \E j \in 1..(i - 1) : call[t].log[j] = "write_probe"
    /\ IsErrKind(call[t].raw_res, "io") =>
          /\ call[t].written # <<>>
          /\ call[t].consumed = <<>>
          /\ \A i \in DOMAIN call[t].log : call[t].log[i] \notin PollsAndReads
          /\ call[t].pc \in {"disable", "done"}
          /\ ReturnsRawResult(t)

\* C17 as claimed: the probe write and its failure.  Each query writes its
\* probe once, before the first poll: one write of QUERY, to /dev/tty when
\* the device can be opened and to stdout only when it cannot; a failure of
\* that write is returned at once as an I/O error, with no poll, no read and
\* no event taken.
C17_StdoutOnlyWhenNoDevice ==
    \A t \in threads :
        InQuery(t) =>
            /\ ProbeFirst(t)
            /\ call[t].written # <<>> =>
                  /\ Len(call[t].written) = 1
                  /\ call[t].written[1].bytes = QUERY(call[t].kind)
                  /\ IsErrKind(call[t].raw_res, "io")
                        <=> ~call[t].written[1].ok

\* C17 amended: each query writes its probe before the first poll, to
\* /dev/tty when the device can be opened, and to stdout when the device
\* cannot be opened or the write to it (write_all or flush) fails: after a
\* failed write to the device comes one write of QUERY to stdout.  One write
\* at most succeeds.  A failure of the write to stdout, and only that, is
\* returned at once as an I/O error, with no poll, no read and no event
\* taken.
C17_StdoutWhenDeviceFails ==
    \A t \in threads :
        InQuery(t) =>
            /\ ProbeFirst(t)
            /\ call[t].written # <<>> =>
                  LET w == call[t].written
                  IN  /\ \A i \in DOMAIN w : w[i].bytes = QUERY(call[t].kind)
                      /\ (w[1].dev = "/dev/tty" /\ w[1].ok) => Len(w) = 1
                      /\ (w[1].dev = "/dev/tty" /\ ~w[1].ok) =>
                            Len(w) = 2 /\ w[2].dev = "stdout"
                      /\ w[1].dev = "stdout" => Len(w) = 1
                      /\ Cardinality({i \in DOMAIN w : w[i].ok}) <= 1
                      /\ IsErrKind(call[t].raw_res, "io") <=> ~Last(w).ok
                      /\ Last(w).ok => call[t].pc = "poll"

\* a query is about to poll after its write to /dev/tty failed and its write
\* to stdout succeeded
C17_Witness ==
    \E t \in threads :
        /\ InQuery(t)
        /\ call[t].pc = "poll"
        /\ Len(call[t].written) = 2
        /\ call[t].written[1].dev = "/dev/tty" /\ ~call[t].written[1].ok
        /\ call[t].written[2].dev = "stdout" /\ call[t].written[2].ok

\* the value a single-feature query decodes from its feature-specific reply
Decoded(kind, event) ==
    CASE kind = "query_keyboard_enhancement_flags" -> Ok(Some(event.payload))
      [] kind = "query_terminal_theme_mode" -> Ok(Some(PayloadOf(event)))
      [] kind = "supports_synchronized_output" -> Ok(TRUE)

\* the single-feature query of t has made its drain read
Drained(t) ==
    /\ call[t].kind \in SingleFeatureKinds
    /\ Count(call[t].log, "drain:Ok") + Count(call[t].log, "drain:Err") > 0

\* C18: a drain failure is never visible to the caller.  In each
\* single-feature query that has read and decoded its feature-specific reply
\* and made the drain read, the raw function returns Ok with the decoded
\* value, the same whether the drain read returned the beacon or an error;
\* the call returns that value unless the disable_raw_mode() of its wrapper
\* failed.
C18_DrainFailureIsNotVisible ==
    \A t \in threads :
        Drained(t) =>
            /\ call[t].consumed # <<>>
            /\ call[t].consumed[1].type # "PrimaryDeviceAttributes"
            /\ call[t].raw_res = Decoded(call[t].kind, call[t].consumed[1])
            /\ call[t].raw_res = call[t].pending
            /\ ReturnsRawResult(t)

\* query_terminal_theme_mode() has returned Ok(Some(Light)) after its drain
\* read returned an error
C18_Witness ==
    \E t \in threads :
        /\ Done(t, "query_terminal_theme_mode")
        /\ Count(call[t].log, "drain:Err") = 1
        /\ call[t].consumed = <<ThemeModeChanged("Light")>>
        /\ call[t].res = Ok(Some("Light"))

\* C19: transient errors are swallowed.  In each of the four query loops an
\* error returned by poll, or by read after a successful poll, does not end
\* the query: right after it the raw function has not returned (no error, no
\* "not supported", no partial TerminalFeatures), the probe stays written
\* once, and the next thing the query does is poll again.
C19_TransientErrorsAreSwallowed ==
    \A t \in threads :
        InQuery(t) =>
            /\ Count(call[t].log, "write_probe") <= 1
            /\ call[t].last_poll = "poll:Err" =>
                  /\ call[t].pc = "poll"
                  /\ call[t].raw_res = NoResult
            /\ \A i \in DOMAIN call[t].log :
                  call[t].log[i] = "read:Err" =>
                      IF i = Len(call[t].log)
                      THEN /\ call[t].pc = "poll"
                           /\ call[t].raw_res = NoResult
                      ELSE call[t].log[i + 1]
                              \in {"poll:Ok(true)", "poll:Ok(false)"}

\* the raw function of the single-feature query of t has returned after its
\* first read gave the feature-specific reply
ReturnedAfterReply(t) ==
    /\ call[t].kind \in SingleFeatureKinds
    /\ call[t].raw_res # NoResult
    /\ call[t].consumed # <<>>
    /\ call[t].consumed[1].type # "PrimaryDeviceAttributes"

\* the events matching its filter that the query of t found in the stream
\* or that came during it are the reply and then the beacon
ReplyThenBeacon(t) ==
    LET replies == SelectSeq(call[t].seen,
                       LAMBDA event : eval(QueryFilter(call[t].kind), event))
    IN  /\ Len(replies) = 2
        /\ replies[1].type # "PrimaryDeviceAttributes"
        /\ replies[2] = PrimaryDeviceAttributes

\* C20: the beacon is drained after every feature-specific reply.  In each
\* single-feature query whose first read returned the feature-specific
\* variant, whatever the payload (KeyboardEnhancementFlags(F),
\* ThemeModeChanged(Dark or Light), SynchronizedOutputMode(Set, Reset or
\* Unknown)), the raw function returns having made one drain read; and when
\* the terminal sent the reply and then the beacon, and the drain read did
\* not fail, no PrimaryDeviceAttributes is left in the stream.
C20_BeaconDrainedAfterEveryReply ==
    \A t \in threads :
        ReturnedAfterReply(t) =>
            /\ Count(call[t].log, "drain:Ok") + Count(call[t].log, "drain:Err")
                  = 1
            /\ (ReplyThenBeacon(t) /\ Count(call[t].log, "drain:Err") = 0)
                  => ~HasMatch("PrimaryDeviceAttributesFilter", stream)

\* the modes that terminal_features has read, the first one first
ModesRead(t) ==
    SelectSeq(call[t].consumed,
              LAMBDA event : event.type = "SynchronizedOutputMode")

\* C21: the synchronized-output reply in the two queries.  The raw function
\* of supports_synchronized_output returns Ok(true) exactly when the first
\* event it read with SynchronizedOutputModeFilter is
\* SynchronizedOutputMode(Set) or SynchronizedOutputMode(Reset), and
\* Ok(false) when that event is SynchronizedOutputMode(Unknown) or the bare
\* PrimaryDeviceAttributes (the call returning the same unless the
\* disable_raw_mode() of its wrapper failed); terminal_features keeps in
\* synchronized_output_mode the mode it read (the last one, were there
\* several) as it is, Set, Reset or Unknown, and returns it so.
C21_SynchronizedOutputReply ==
    \A t \in threads :
        /\ call[t].kind = "supports_synchronized_output" =>
              /\ IsOkVal(call[t].raw_res, TRUE)
                    <=> /\ call[t].raw_res # NoResult
                        /\ call[t].consumed # <<>>
                        /\ call[t].consumed[1]
                              \in {SynchronizedOutputMode("Set"),
                                   SynchronizedOutputMode("Reset")}
              /\ (call[t].raw_res # NoResult /\ call[t].consumed # <<>>
                    /\ call[t].consumed[1]
                          \in {SynchronizedOutputMode("Unknown"),
                               PrimaryDeviceAttributes})
                    => call[t].raw_res = Ok(FALSE)
              /\ call[t].raw_res # NoResult => ReturnsRawResult(t)
        /\ call[t].kind = "terminal_features" =>
              /\ ModesRead(t) # <<>> =>
                    call[t].features.synchronized_output_mode
                        = PayloadOf(Last(ModesRead(t)))
              /\ IsOk(call[t].raw_res) =>
                    call[t].raw_res.val.synchronized_output_mode
                        = call[t].features.synchronized_output_mode
              /\ call[t].raw_res # NoResult => ReturnsRawResult(t)

\* supports_synchronized_output() has returned Ok(false) on the reply
\* SynchronizedOutputMode(Unknown)
C21_Witness ==
    \E t \in threads :
        /\ Done(t, "supports_synchronized_output")
        /\ call[t].consumed = <<SynchronizedOutputMode("Unknown")>>
        /\ call[t].res = Ok(FALSE)

\* the threads that are between lock() and the drop of the guard
InCriticalSection == {t \in threads : call[t].pc \in CriticalSection}

\* the call of t returns in this step
Returns(t) == call[t].pc # "done" /\ call'[t].pc = "done"

\* what the call of t has made of the state found when it took the lock is
\* what the function makes of it when nothing else runs
AsIfAlone(t) ==
    LET c == call'[t]
        after == RawModeStep(TERMINAL_MODE_PRIOR_RAW_MODE', tty', c.res, c.io)
    IN  CASE c.kind = "enable_raw_mode" ->
                \E fault \in RawModeFaults :
                    after = enable_raw_mode(c.pre_mode, c.pre_tty, fault)
          [] c.kind = "disable_raw_mode" ->
                \E fault \in RawModeFaults :
                    after = disable_raw_mode(c.pre_mode, c.pre_tty, fault)
          [] c.kind = "is_raw_mode_enabled" ->
                /\ c.res = Ok(is_some(TERMINAL_MODE_PRIOR_RAW_MODE))
                /\ c.io = <<>>
                /\ TERMINAL_MODE_PRIOR_RAW_MODE' = c.pre_mode
                /\ UNCHANGED <<TERMINAL_MODE_PRIOR_RAW_MODE, tty>>

\* C22: raw-mode mutual exclusion.  Under every interleaving of the steps of
\* enable_raw_mode(), disable_raw_mode() and is_raw_mode_enabled() calls of
\* several threads, whatever system call fails: one thread at most is
\* between lock() and the drop of the guard, and it holds the lock; when the
\* lock is free the state is Raw exactly when the terminal carries the
\* attributes that enable_raw_mode() applied, which are the raw form of the
\* saved ones, and in Cooked the terminal carries the attributes it had; the
\* saved attributes are always those the terminal carried just before the
\* Cooked -> Raw transition; every call returns having done to the state it
\* found when it took the lock what it does when it runs alone
\* (is_raw_mode_enabled() returning true exactly in Raw, with no I/O and no
\* change).
C22_RawModeMutualExclusion ==
    /\ [](/\ Cardinality(InCriticalSection) <= 1
          /\ \A t \in InCriticalSection : mutex = t
          /\ Raw => unwrap(TERMINAL_MODE_PRIOR_RAW_MODE) = prior_tty
          /\ mutex = "none" =>
                /\ InCriticalSection = {}
                /\ Raw <=> raw_applied
                /\ Raw => tty = raw_terminal_attr(prior_tty)
                /\ Cooked => tty = prior_tty)
    /\ [][\A t \in threads : Returns(t) => AsIfAlone(t)]_vars

\* one thread has enabled raw mode, changing the attributes of the terminal,
\* and since then the other has been told by is_raw_mode_enabled() that it
\* is enabled, and now waits for nothing: the lock is free
C22_Witness ==
    \E t, u \in threads :
        /\ t # u
        /\ Done(t, "enable_raw_mode")
        /\ IsOk(call[t].res)
        /\ call[t].io # <<>>
        /\ Done(u, "is_raw_mode_enabled")
        /\ call[u].res = Ok(TRUE)
        /\ mutex = "none"
        /\ Raw
        /\ unwrap(TERMINAL_MODE_PRIOR_RAW_MODE) # tty

\* the latest raw-mode call of thread u is an enable_raw_mode() that took
\* the state from Cooked to Raw, and u has not called disable_raw_mode()
\* since
EnabledBy(u) ==
    /\ Done(u, "enable_raw_mode")
    /\ IsOk(call[u].res)
    /\ ~is_some(call[u].pre_mode)

\* C23: a query only exits a raw mode that it entered itself.  Under every
\* interleaving of the steps of a query in one thread with raw-mode calls in
\* another, once the other thread has taken the state from Cooked to Raw by
\* enable_raw_mode(), and as long as it has not called disable_raw_mode(),
\* the state is Raw with the attributes saved by that call, whatever the
\* query does and after the query has returned.
C23_QueryKeepsForeignRawMode ==
    \A t, u \in threads :
        (InQuery(t) /\ EnabledBy(u)) =>
            /\ Raw
            /\ TERMINAL_MODE_PRIOR_RAW_MODE = Some(call[u].pre_tty)

\* the variant of the feature-specific reply of each single-feature query
ReplyType(kind) ==
    CASE kind = "query_keyboard_enhancement_flags" -> "KeyboardEnhancementFlags"
      [] kind = "supports_synchronized_output" -> "SynchronizedOutputMode"
      [] kind = "query_terminal_theme_mode" -> "ThemeModeChanged"

\* the reply that tells the query of t that its feature is supported is in
\* the stream
SupportReplyLeft(t) ==
    \E i \in DOMAIN stream :
        /\ stream[i].type = ReplyType(call[t].kind)
        /\ stream[i] # SynchronizedOutputMode("Unknown")

\* C24: the beacon race between overlapping queries.  When two threads run
\* two different single-feature queries at the same time on the shared
\* stream, every event a query takes is its own feature-specific reply or a
\* PrimaryDeviceAttributes: no query takes the feature-specific reply of the
\* other.  (That one query can take the beacon the other elicited, and so
\* completes early with "not supported" although its reply was sent, is the
\* state C24_Witness, which is reachable with the lock of the raw-mode state
\* free at every poll and read.)
C24_RepliesStayWithTheirQuery ==
    \A t \in threads :
        InQuery(t) =>
            \A i \in DOMAIN call[t].consumed :
                \/ call[t].consumed[i] = PrimaryDeviceAttributes
                \/ call[t].consumed[i].type = ReplyType(call[t].kind)

\* the query of t has returned "not supported" on a beacon, the one that the
\* query of u elicited, while its own reply, sent before, is left in the
\* stream; the query of u has read its reply and drained the other beacon
C24_Witness ==
    \E t, u \in threads :
        /\ t # u
        /\ InQuery(t) /\ InQuery(u)
        /\ call[t].pc = "done" /\ call[u].pc = "done"
        /\ call[t].consumed = <<PrimaryDeviceAttributes>>
        /\ call[t].res = NotSupported(call[t].kind, DefaultTerminalFeatures)
        /\ SupportReplyLeft(t)
        /\ Len(call[u].consumed) = 2
        /\ call[u].consumed[1].type = ReplyType(call[u].kind)
        /\ call[u].consumed[2] = PrimaryDeviceAttributes
        /\ ~HasMatch("PrimaryDeviceAttributesFilter", stream)
        /\ mutex = "none"

\* the events that are no part of the negotiation: user input and the
\* replies to a cursor position request
OrdinaryInput(event) ==
    event.type \in {"Key", "Mouse", "Resize", "Paste", "FocusGained",
                    "FocusLost", "CursorPosition"}

NegotiationTypes ==
    {"KeyboardEnhancementFlags", "SynchronizedOutputMode", "ThemeModeChanged",
     "PrimaryDeviceAttributes"}

\* C25: negotiation queries never consume ordinary input.  Every event that
\* a query has taken from the stream is a KeyboardEnhancementFlags,
\* SynchronizedOutputMode, ThemeModeChanged or PrimaryDeviceAttributes event
\* that the filter of the query accepts, the one taken by the drain read
\* being PrimaryDeviceAttributes; and the key, mouse, resize, paste and focus
\* events and the CursorPosition replies that were in the stream when the
\* query began, or came during it, are in the stream, in the order in which
\* they came, while the query runs and when it has returned.
C25_OrdinaryInputIsLeftAlone ==
    \A t \in threads :
        InQuery(t) =>
            /\ \A i \in DOMAIN call[t].consumed :
                  /\ call[t].consumed[i].type \in NegotiationTypes
                  /\ eval(QueryFilter(call[t].kind), call[t].consumed[i])
            /\ Count(call[t].log, "drain:Ok") > 0 =>
                  Last(call[t].consumed) = PrimaryDeviceAttributes
            /\ SelectSeq(stream, OrdinaryInput)
                  = SelectSeq(call[t].seen, OrdinaryInput)

\* a query has returned after reading its reply and the beacon, which stood
\* in the stream between a CursorPosition reply and a key event: these two
\* are what is left
C25_Witness ==
    \E t \in threads :
        /\ InQuery(t)
        /\ call[t].pc = "done"
        /\ Len(call[t].consumed) = 2
        /\ Len(call[t].seen) = 4
        /\ call[t].seen[1] = CursorPosition
        /\ call[t].seen[4] = KeyEvent
        /\ stream = <<CursorPosition, KeyEvent>>

\* C26: the errors of the scoped raw-mode wrapper come before the result of
\* the query.  In each of the four queries called in state Cooked: when its
\* enable_raw_mode() fails the query returns that error, having written no
\* probe and made no poll and no read, with no event taken and the state
\* Cooked; when its disable_raw_mode() fails the query returns the error of
\* disable_raw_mode() in the place of what its raw function returned (a
\* decoded value, "not supported", the timeout error or the error of the
\* probe write), and the state is Raw with the attributes saved when the
\* query enabled raw mode; when neither fails it returns what its raw
\* function returned.
C26_WrapperErrorsComeFirst ==
    \A t \in threads :
        (InQuery(t) /\ ~is_some(call[t].pre_mode)) =>
            /\ IsErr(call[t].enable_res) =>
                  /\ call[t].pc = "done"
                  /\ call[t].res = call[t].enable_res
                  /\ call[t].log = <<"is_raw_mode_enabled", "enable_raw_mode">>
                  /\ call[t].written = <<>>
                  /\ call[t].consumed = <<>>
                  /\ call[t].raw_res = NoResult
                  /\ stream = call[t].seen
                  /\ Cooked
            /\ IsErr(call[t].disable_res) =>
                  /\ call[t].pc = "done"
                  /\ call[t].raw_res # NoResult
                  /\ call[t].res = call[t].disable_res
                  /\ Last(call[t].log) = "disable_raw_mode"
                  /\ TERMINAL_MODE_PRIOR_RAW_MODE = Some(call[t].pre_tty)
                  /\ tty = raw_terminal_attr(call[t].pre_tty)
            /\ (call[t].pc = "done" /\ IsOk(call[t].enable_res)
                  /\ IsOk(call[t].disable_res)) =>
                  call[t].res = call[t].raw_res

\* terminal_features() called in Cooked has returned the error of its
\* disable_raw_mode() although its raw function had returned the features of
\* the terminal
C26_Witness ==
    \E t \in threads :
        /\ Done(t, "terminal_features")
        /\ ~is_some(call[t].pre_mode)
        /\ IsOk(call[t].raw_res)
        /\ call[t].consumed # <<>>
        /\ IsErrKind(call[t].disable_res, "io")
        /\ IsErrKind(call[t].res, "io")
        /\ Raw

====
